---- MODULE Spec2Model ----
(***************************************************************************)
(* A model of the collection pipeline of elasticsearch_exporter:           *)
(*   metric.go            MetricFamily, NewMetric, makeLabelPairs          *)
(*   query.go             Query.Collect, Query.run                         *)
(*   collector.go         collector.Collect, cachingCollector.Collect      *)
(*                        (src/unnamed/part_002)                           *)
(*   target.go            Target.Collect (not among the sources; modelled  *)
(*                        from the specification, section 4.5)             *)
(*                                                                         *)
(* Three specifications share the module:                                  *)
(*   SpecMF     MetricFamily.Collect as a pure function of its inputs      *)
(*   Spec       one Target scrape: Target -> collectors -> queries         *)
(*   SpecCache  concurrent callers of one cachingCollector                 *)
(***************************************************************************)
EXTENDS Integers, Sequences, FiniteSets, TLC

VARIABLES
    \* ---- MetricFamily.Collect as a function (SpecMF)
    mfIn,        \* the call's inputs: [mf, data, total]
    mfOut,       \* the samples sent to ch by the call, in order
    mfDone,      \* whether the call has been made
    \* ---- one construction of a sample (SpecLabels)
    lpIn,        \* the inputs: [synthetic, constLabels, staticLabels, labelValues]
    lpOut,       \* the metric NewMetric returned
    lpDone,      \* whether the metric has been built
    \* ---- one Query.Collect on a response (SpecQuery)
    qrIn,        \* the inputs: [q, body]
    qrOut,       \* what the call did: [pending, mfcalls]
    qrDone,      \* whether the call has been made
    \* ---- the descriptors built from one slice of constant labels (SpecFamilies)
    shHeap,      \* the backing arrays of the slices, by number
    shConst,     \* constLabels, the slice every constructor is handed
    shOrig,      \* the labels constLabels held before any constructor ran
    shFams,      \* the families built: [staticLabels, constLabels]
    shAuto,      \* the automatic descriptors built
    \* ---- one aggregation handler (SpecAgg)
    aggIn,       \* the inputs: [aggType, name, result, acc]
    aggNew,      \* what NewForType returned: [handler, err]
    aggOut,      \* the metricsData that Handle returned
    aggpc,       \* "new", "built", "handled" or "panicked"
    \* ---- the scrape (Spec) and the raw collector runs (Spec, SpecCache)
    ctxDone,     \* ctxDone[x]: context x is cancelled or expired
    qpc,         \* qpc[q]: position of the goroutine running Query q
    qpending,    \* qpending[q]: samples Query q has still to send
    qsearch,     \* qsearch[q]: number of backend search calls issued by q
    qmfcalls,    \* qmfcalls[q]: number of MetricFamily.Collect calls made by q
    qoutcome,    \* qoutcome[q]: the backend's answer to q's search call
    qentry,      \* qentry[q]: the state of the context as Query q's Collect was invoked
    cpc,         \* cpc[c]: position of collector c's Collect
    cctx,        \* cctx[c]: the context collector c's Collect was called with
    wg,          \* wg[c]: the WaitGroup counter of collector c's Collect
    cstarts,     \* cstarts[c]: number of times collector c's Collect was called
    tpc,         \* position of Target.Collect
    tname,       \* the target's name ("" in single-target mode)
    tclient,     \* the Target's backend client handle ("nil" or "client")
    tup,         \* targetUp, the local of Target.Collect
    tprobes,     \* number of health probes sent to the backend
    out,         \* everything sent on the scrape's output channel, in order
    \* ---- several scrapes of one Target (SpecScrapes)
    spc,         \* spc[s]: position of scrape s in Target.Collect
    sseen,       \* sseen[s]: the client handle as scrape s read it
    srounds,     \* srounds[s]: number of Target.Collect calls s has begun
    twrites,     \* number of assignments made to the client handle
    twhile,      \* whether the handle was assigned while Collectors were running
    \* ---- the cachingCollector (SpecCache)
    now,         \* the wall clock
    cacheSem,    \* the contents of the channel cc.cacheSem (capacity 1)
    cache,       \* cc.cache
    cacheChan,   \* the contents of the current refresh's cacheChan
    ccpc,        \* ccpc[p]: position of caller p in cachingCollector.Collect
    collTime,    \* collTime[p]: the local collTime of caller p
    cacheTime,   \* cacheTime[p]: the local cacheTime of caller p
    ccout,       \* ccout[p]: everything caller p sent on its channel ch
    ccraw        \* ccraw[p]: number of rawColl.Collect calls started by caller p

lpVars    == <<lpIn, lpOut, lpDone>>
aggVars   == <<aggIn, aggNew, aggOut, aggpc>>
qrVars    == <<qrIn, qrOut, qrDone>>
shVars    == <<shHeap, shConst, shOrig, shFams, shAuto>>
mfVars    == <<mfIn, mfOut, mfDone, lpVars, aggVars, qrVars, shVars>>
queryVars == <<qpc, qpending, qsearch, qmfcalls, qoutcome, qentry>>
collVars  == <<cpc, cctx, wg, cstarts>>
scrVars   == <<spc, sseen, srounds, twrites, twhile>>
targetVars == <<tpc, tname, tclient, tup, tprobes, out, scrVars>>
cacheVars == <<now, cacheSem, cache, cacheChan, ccpc, collTime, cacheTime,
               ccout, ccraw>>
vars == <<mfVars, ctxDone, queryVars, collVars, targetVars, cacheVars>>

(***************************************************************************)
(* Bounds of the model.                                                    *)
(***************************************************************************)
\* longest data sequence handed to MetricFamily.Collect in SpecMF
MaxData == 2
\* the wall clock of SpecCache advances at most MaxTime times
MaxTime == 2
\* the longest sequence of constant labels and of static labels in SpecLabels
MaxLabels == 2
\* the most buckets of a terms aggregation result in SpecAgg
MaxBuckets == 2
\* the most Target.Collect calls one scraper makes in SpecScrapes
MaxScrapes == 2
\* the most aggregations of a response in SpecQuery
MaxAggs == 2
\* the most MetricFamilies built from one constLabels in SpecFamilies
MaxFamilies == 2
\* the most unused capacity of constLabels in SpecFamilies
MaxSpare == 2

(***************************************************************************)
(* Strings.  Go compares label names with < on strings (byte-wise          *)
(* lexicographic order); the names used in the model, in that order.       *)
(***************************************************************************)
LabelNames == <<"", "code", "env", "job", "stat">>

Rank(s) == CHOOSE i \in 1..Len(LabelNames) : LabelNames[i] = s

StrLess(a, b) == Rank(a) < Rank(b)

(***************************************************************************)
(* float64 values.  The inputs of the model are integral; a quotient is    *)
(* kept exactly as a reduced fraction, with 0/0 = NaN and x/0 = +Inf.      *)
(***************************************************************************)
RECURSIVE Gcd(_, _)
Gcd(a, b) == IF b = 0 THEN a ELSE Gcd(b, a % b)

Float(n) == [num |-> n, den |-> 1]

NaN == [num |-> 0, den |-> 0]

Inf == [num |-> 1, den |-> 0]

FDiv(a, b) ==
    IF b = 0 THEN (IF a = 0 THEN NaN ELSE Inf)
    ELSE LET g == Gcd(a, b) IN [num |-> a \div g, den |-> b \div g]

\* (f * 100) / total for a float f and an integral total >= 0
Percent(f, total) ==
    IF f.den = 0 THEN f ELSE FDiv(f.num * 100, f.den * total)

(***************************************************************************)
(* metricData: a value and an optional label pair.                         *)
(***************************************************************************)
newMetricData(value) == [value |-> value, label |-> <<>>]

newLabeledMetricData(value, key, val) ==
    [value |-> value, label |-> <<[key |-> key, value |-> val]>>]

hasLabels(d) == d.label # <<>>

(***************************************************************************)
(* labelPairSorter and sort.Sort: the pairs ordered by name.  An insertion *)
(* sort that keeps pairs of equal name in their order.                     *)
(***************************************************************************)
Less(a, b) == StrLess(a.name, b.name)

RECURSIVE Insert(_, _)
Insert(p, s) ==
    IF s = <<>> THEN <<p>>
    ELSE IF Less(p, Head(s)) THEN <<p>> \o s
    ELSE <<Head(s)>> \o Insert(p, Tail(s))

RECURSIVE SortPairs(_)
SortPairs(s) ==
    IF s = <<>> THEN <<>>
    ELSE Insert(s[Len(s)], SortPairs(SubSeq(s, 1, Len(s) - 1)))

\* metric.go makeLabelPairs: nil, the constant labels themselves, or the
\* per-sample labels followed by the constant labels, sorted.
makeLabelPairs(desc, labelValues) ==
    LET constLabels == desc.constLabels
        totalLen == Len(labelValues) + Len(constLabels)
        converted == [i \in 1..Len(labelValues) |->
                        [name |-> labelValues[i].key,
                         value |-> labelValues[i].value]]
    IN  IF totalLen = 0 THEN <<>>
        ELSE IF Len(labelValues) = 0 THEN constLabels
        ELSE SortPairs(converted \o constLabels)

\* metric.go NewMetric: a constMetric
NewMetric(desc, value, labelValues) ==
    [kind |-> "metric", desc |-> desc.name, val |-> value,
     labelPairs |-> makeLabelPairs(desc, labelValues)]

\* metric.go NewAutomaticMetricDesc: the descriptor keeps the constant labels
\* as they are handed to it
NewAutomaticMetricDesc(name, constLabels) ==
    [name |-> name, constLabels |-> constLabels]

\* metric.go NewInvalidMetric: a metric that carries only an error
NewInvalidMetric(err) ==
    [kind |-> "invalid", err |-> err]

IsInvalid(m) == m.kind = "invalid"

(***************************************************************************)
(* MetricFamily                                                            *)
(***************************************************************************)
\* a variant of supported that applies the allow-list to a label of any key
supportedAnyKey(mf, pair) ==
    LET valid == pair.key # "" /\ pair.value # ""
        hasFilters == mf.hasAggregation /\ Len(mf.filters) > 0
    IN  IF valid /\ hasFilters
        THEN \E i \in 1..Len(mf.filters) : mf.filters[i] = pair.value
        ELSE valid

\* metric.go MetricFamily.supported
supported(mf, pair) ==
    LET valid == pair.key # "" /\ pair.value # ""
        hasFilters == mf.hasAggregation /\ Len(mf.filters) > 0
    IN  IF valid /\ hasFilters /\ mf.aggregationName = pair.key
        THEN \E i \in 1..Len(mf.filters) : mf.filters[i] = pair.value
        ELSE valid

\* a variant of calculateValue whose percentage is the plain ratio
calculateValueRatio(mf, d, total) ==
    CASE mf.valueType = "percentage" -> FDiv(d.value.num, d.value.den * total)
      [] mf.valueType = "absolute"   -> d.value
      [] OTHER                       -> Float(0)

\* metric.go MetricFamily.calculateValue
calculateValue(mf, d, total) ==
    CASE mf.valueType = "percentage" -> Percent(d.value, total)
      [] mf.valueType = "absolute"   -> d.value
      [] OTHER                       -> Float(0)

\* the body of the loop of MetricFamily.Collect for one datum: the sends it makes
CollectDatum(mf, d, total) ==
    LET labels == IF hasLabels(d) /\ supported(mf, d.label[1])
                  THEN d.label ELSE <<>>
    IN  IF ~hasLabels(d) \/ Len(labels) > 0
        THEN <<NewMetric(mf, calculateValue(mf, d, total), labels)>>
        ELSE <<>>

RECURSIVE CollectData(_, _, _)
CollectData(mf, data, total) ==
    IF data = <<>> THEN <<>>
    ELSE CollectDatum(mf, Head(data), total) \o CollectData(mf, Tail(data), total)

\* a variant of TotalSample that does not look at TrackTotal
TotalSampleAlways(mf, total) == <<NewMetric(mf, Float(total), <<>>)>>

\* metric.go MetricFamily.Collect, the part after the loop: the total sample
TotalSample(mf, total) ==
    IF mf.trackTotal THEN <<NewMetric(mf, Float(total), <<>>)>> ELSE <<>>

\* metric.go MetricFamily.Collect: the sequence of its sends on ch
MFCollect(mf, data, total) ==
    CollectData(mf, data, total) \o TotalSample(mf, total)

(***************************************************************************)
(* The configuration of the model: the metric families, queries,           *)
(* collectors and the target built at start-up.                            *)
(***************************************************************************)
\* the constant labels handed to NewCollector (job, instance, ...)
ConstLabels == <<[name |-> "env", value |-> "prod"]>>

\* a variant of SortedLabels that leaves the labels in the order of arrival
SortedLabelsAppended(constLabels, staticLabels) == constLabels \o staticLabels

\* metric.go NewMetricFamily, sortedLabels: a copy of the constant labels, the
\* static labels appended in the order the map yields them, sorted by name
SortedLabels(constLabels, staticLabels) == SortPairs(constLabels \o staticLabels)

\* a MetricFamily as NewMetricFamily builds it
NewMetricFamily(constLabels, name, trackTotal, valueType, hasAggregation, aggregationName, filters, staticLabels) ==
    [name |-> name, trackTotal |-> trackTotal, valueType |-> valueType,
     hasAggregation |-> hasAggregation, aggregationName |-> aggregationName,
     filters |-> filters,
     constLabels |-> SortedLabels(constLabels, staticLabels)]

(***************************************************************************)
(* SpecMF: MetricFamily.Collect applied to bounded inputs.                 *)
(***************************************************************************)
DatumValues == {Float(0), Float(50)}

LabelKeys == {"", "code", "stat"}

LabelValues == {"", "200", "500"}

Data ==
    {newMetricData(v) : v \in DatumValues}
    \cup {newLabeledMetricData(Float(50), k, v) : k \in LabelKeys, v \in LabelValues}

Totals == {0, 200}

Families ==
    {NewMetricFamily(ConstLabels, "m", tt, vt, ha, "code", f, <<>>) :
        tt \in BOOLEAN, vt \in {"absolute", "percentage"}, ha \in BOOLEAN,
        f \in {<<>>, <<"200">>}}

SeqsUpTo(S, n) == UNION {[1..k -> S] : k \in 0..n}

Inputs == [mf : Families, data : SeqsUpTo(Data, MaxData), total : Totals]

NoInput == [mf |-> NewMetricFamily(ConstLabels, "m", FALSE, "absolute", FALSE, "", <<>>, <<>>),
            data |-> <<>>, total |-> 0]

NoLabels == [synthetic |-> FALSE, constLabels |-> <<>>, staticLabels |-> <<>>,
             labelValues |-> <<>>]

NoMetric == NewMetric(NewAutomaticMetricDesc("", <<>>), Float(0), <<>>)

LabelsIdle == lpIn = NoLabels /\ lpOut = NoMetric /\ lpDone = FALSE

MFIdle == mfIn = NoInput /\ mfOut = <<>> /\ mfDone = FALSE /\ LabelsIdle

\* mf.Collect(data, total, ch) on the inputs drawn
CallMFCollect ==
    /\ ~mfDone
    /\ mfOut' = MFCollect(mfIn.mf, mfIn.data, mfIn.total)
    /\ mfDone' = TRUE
    /\ UNCHANGED <<mfIn, lpVars, aggVars, qrVars, shVars>>

(***************************************************************************)
(* SpecLabels: NewMetric applied to a descriptor built from bounded        *)
(* inputs, a MetricFamily or an automatic descriptor.                      *)
(***************************************************************************)
\* the sequences without repetition of at most n elements of S
RECURSIVE Arrangements(_, _)
Arrangements(S, n) ==
    IF n = 0 THEN {<<>>}
    ELSE {<<>>} \cup UNION {{<<x>> \o t : t \in Arrangements(S \ {x}, n - 1)} : x \in S}

IsSortedByName(s) == \A i, j \in 1..Len(s) : i < j => ~StrLess(s[j].name, s[i].name)

ConstPairs == {[name |-> "env", value |-> "prod"], [name |-> "job", value |-> "es"]}

\* the static labels of a metric's configuration; one repeats a constant
\* label's name
StaticPairs == {[name |-> "stat", value |-> "s"], [name |-> "code", value |-> "c"],
                [name |-> "env", value |-> "dev"]}

SamplePairs == {[key |-> "code", value |-> "200"], [key |-> "stat", value |-> "max"],
                [key |-> "", value |-> "x"]}

\* the constant labels of a target reach its descriptors sorted by name
TargetConstLabels == {c \in Arrangements(ConstPairs, MaxLabels) : IsSortedByName(c)}

LabelInputs ==
    [synthetic : {FALSE}, constLabels : Arrangements(ConstPairs, MaxLabels),
     staticLabels : Arrangements(StaticPairs, MaxLabels),
     labelValues : Arrangements(SamplePairs, 1)]
    \cup [synthetic : {TRUE}, constLabels : TargetConstLabels,
          staticLabels : {<<>>}, labelValues : Arrangements(SamplePairs, 1)]

\* the descriptor of the drawn inputs
DescOf(in) ==
    IF in.synthetic
    THEN NewAutomaticMetricDesc("up", in.constLabels)
    ELSE NewMetricFamily(in.constLabels, "m", FALSE, "absolute", FALSE, "", <<>>,
                         in.staticLabels)

\* NewMetric(desc, 1, labelValues...) on the inputs drawn
CallNewMetric ==
    /\ ~lpDone
    /\ lpOut' = NewMetric(DescOf(lpIn), Float(1), lpIn.labelValues)
    /\ lpDone' = TRUE
    /\ UNCHANGED <<mfIn, mfOut, mfDone, lpIn, aggVars, qrVars, shVars>>

(***************************************************************************)
(* Errors (package errors) and contexts.  An error is its log context and  *)
(* its message; NoError is nil.                                            *)
(***************************************************************************)
NoError == [context |-> "", msg |-> <<>>]

\* ctx.Err() of a cancelled or expired context
CtxErr == [context |-> "", msg |-> <<"context canceled">>]

\* errors.Wrap(context, err): nil for a nil err.  Query.run returns
\* errors.Wrap(q.logContext, err) for the nil err of a successful search and
\* Query.Collect takes that result for success.
Wrap(context, err) ==
    IF err = NoError THEN NoError ELSE [context |-> context, msg |-> err.msg]

\* errors.Wrapf(context, err, format, ...): as Wrap, with the formatted
\* message put before err's
Wrapf(context, err, message) ==
    IF err = NoError THEN NoError
    ELSE [context |-> context, msg |-> <<message>> \o err.msg]

(***************************************************************************)
(* The objects built at start-up.  A Target owns the collectors c1 (the    *)
(* queries q1, q2) and c2 (the query q3); the collector cr (the query q4)  *)
(* is wrapped by a cachingCollector.                                       *)
(***************************************************************************)
TargetColls == {"c1", "c2"}

RawColl == "cr"

Colls == TargetColls \cup {RawColl}

\* collector.queries
QueriesOf(c) ==
    CASE c = "c1" -> {"q1", "q2"}
      [] c = "c2" -> {"q3"}
      [] c = "cr" -> {"q4"}

Queries == UNION {QueriesOf(c) : c \in Colls}

TargetQueries == UNION {QueriesOf(c) : c \in TargetColls}

CollOf(q) == CHOOSE c \in Colls : q \in QueriesOf(c)

\* the callers of cachingCollector.Collect, each with a context of its own
Callers == {"p1", "p2", "p3"}

\* Query.metricFamilies
MetricFamiliesOf(q) ==
    CASE q = "q1" -> <<NewMetricFamily(ConstLabels, "a", FALSE, "absolute", TRUE, "code", <<>>, <<>>)>>
      [] q = "q2" -> <<NewMetricFamily(ConstLabels, "b1", FALSE, "absolute", FALSE, "", <<>>, <<>>),
                       NewMetricFamily(ConstLabels, "b2", FALSE, "percentage", FALSE, "", <<>>, <<>>)>>
      [] q = "q3" -> <<NewMetricFamily(ConstLabels, "c", TRUE, "absolute", FALSE, "", <<>>, <<>>)>>
      [] q = "q4" -> <<NewMetricFamily(ConstLabels, "d", FALSE, "absolute", TRUE, "code", <<>>, <<>>)>>

\* Query.config.Aggregation.Name, the one aggregation Query.run requests
RequestedAggregation(q) == IF q \in {"q1", "q4"} THEN "code" ELSE ""

\* Query.config.Aggregation.Type
AggregationType(q) ==
    CASE q \in {"q1", "q4"} -> "percent"
      [] q = "q2"           -> "absolute"
      [] OTHER              -> ""

(***************************************************************************)
(* The backend.  A search ends in a transport error (no response), in an   *)
(* error response (a status above 299, no transport error), or in a        *)
(* response with a body.  A body is given by what gjson reads from it: the *)
(* number at hits.total.value and the aggregations with their buckets; a   *)
(* missing value reads as 0 and a missing object as empty.                 *)
(***************************************************************************)
Outcomes == {"transport", "http", "ok"}

EmptyBody == [total |-> 0, aggs |-> <<>>]

Body(q) ==
    IF q \in {"q1", "q4"}
    THEN [total |-> 2,
          aggs |-> <<[name |-> "code",
                      buckets |-> <<[key |-> "200", doc_count |-> 1]>>]>>]
    ELSE [total |-> 2, aggs |-> <<>>]

\* client.Search: result (with a body) and err
Search(q, outcome) ==
    CASE outcome = "transport" ->
            [result |-> FALSE, isError |-> FALSE, body |-> EmptyBody,
             err |-> [context |-> "", msg |-> <<"connection refused">>]]
      [] outcome = "http" ->
            [result |-> TRUE, isError |-> TRUE, body |-> EmptyBody, err |-> NoError]
      [] outcome = "ok" ->
            [result |-> TRUE, isError |-> FALSE, body |-> Body(q), err |-> NoError]

(***************************************************************************)
(* Query                                                                   *)
(***************************************************************************)
\* query.go Query.run, after the search call: (response, error)
run(q, res) ==
    LET err == IF res.result /\ res.isError
               THEN Wrapf(q, res.err, "Request failed with status code")
               ELSE res.err
        response == IF res.result /\ ~res.isError THEN res.body ELSE EmptyBody
    IN  [resp |-> response, err |-> Wrap(q, err)]

\* query.go Query.calculateMetricValue: the ABSOLUTE case has an empty body
\* and Go does not fall through, so it leaves result at its zero value
calculateMetricValue(q, total, value) ==
    CASE AggregationType(q) = "percent"  -> Percent(Float(value), total)
      [] AggregationType(q) = "absolute" -> Float(0)
      [] OTHER                           -> Float(value)

\* query.go Query.Collect, the loop over the buckets of one aggregation
RECURSIVE BucketData(_, _, _, _)
BucketData(q, name, buckets, total) ==
    IF buckets = <<>> THEN <<>>
    ELSE <<newLabeledMetricData(
              calculateMetricValue(q, total, Head(buckets).doc_count),
              name, Head(buckets).key)>>
         \o BucketData(q, name, Tail(buckets), total)

\* query.go Query.Collect, the loop over the aggregations, in the order in
\* which the map yields them: the order of aggs
RECURSIVE AggregationData(_, _, _)
AggregationData(q, aggs, total) ==
    IF aggs = <<>> THEN <<>>
    ELSE BucketData(q, Head(aggs).name, Head(aggs).buckets, total)
         \o AggregationData(q, Tail(aggs), total)

RECURSIVE CollectFamilies(_, _, _)
CollectFamilies(mfs, metrics, total) ==
    IF mfs = <<>> THEN <<>>
    ELSE MFCollect(Head(mfs), metrics, total)
         \o CollectFamilies(Tail(mfs), metrics, total)

\* a variant of QueryEnter that does not look at the context
QueryEnterNoCheck(q, cancelled) ==
    [pc |-> "call", pending |-> <<>>, search |-> 1]

\* query.go Query.Collect up to the search call: with a context that is done,
\* one invalid metric and return; otherwise the search is issued
QueryEnter(q, cancelled) ==
    IF cancelled
    THEN [pc |-> "send", pending |-> <<NewInvalidMetric(Wrap(q, CtxErr))>>,
          search |-> 0]
    ELSE [pc |-> "call", pending |-> <<>>, search |-> 1]

\* query.go Query.Collect after run returned r: the sends it makes and the
\* number of MetricFamily.Collect calls.  The metrics start with the
\* unlabeled total; total is the value read at hits.total.value.
QueryShape(q, r) ==
    IF r.err # NoError
    THEN [pending |-> <<NewInvalidMetric(r.err)>>, mfcalls |-> 0]
    ELSE LET total == r.resp.total
             metrics == <<newMetricData(Float(total))>>
                        \o AggregationData(q, r.resp.aggs, total)
         IN  [pending |-> CollectFamilies(MetricFamiliesOf(q), metrics, total),
              mfcalls |-> Len(MetricFamiliesOf(q))]

QueryIdle(Q) ==
    /\ qpc = [q \in Q |-> "idle"]
    /\ qpending = [q \in Q |-> <<>>]
    /\ qsearch = [q \in Q |-> 0]
    /\ qmfcalls = [q \in Q |-> 0]
    /\ qoutcome = [q \in Q |-> "none"]
    /\ qentry = [q \in Q |-> "none"]

\* the goroutine of Query q enters q.Collect(ctx, client, ch)
QEnter(q) ==
    /\ qpc[q] = "start"
    /\ LET cancelled == ctxDone[cctx[CollOf(q)]]
           r == QueryEnter(q, cancelled)
       IN  /\ qpc' = [qpc EXCEPT ![q] = r.pc]
           /\ qpending' = [qpending EXCEPT ![q] = r.pending]
           /\ qsearch' = [qsearch EXCEPT ![q] = @ + r.search]
           /\ qentry' = [qentry EXCEPT ![q] = IF cancelled THEN "cancelled" ELSE "live"]
    /\ UNCHANGED <<qmfcalls, qoutcome>>
    /\ UNCHANGED <<mfVars, ctxDone, collVars, targetVars, cacheVars>>

\* the search call of Query q returns; q shapes the response
QReturn(q) ==
    /\ qpc[q] = "call"
    /\ \E o \in Outcomes :
         LET r == QueryShape(q, run(q, Search(q, o)))
         IN  /\ qpending' = [qpending EXCEPT ![q] = r.pending]
             /\ qmfcalls' = [qmfcalls EXCEPT ![q] = r.mfcalls]
             /\ qoutcome' = [qoutcome EXCEPT ![q] = o]
    /\ qpc' = [qpc EXCEPT ![q] = "send"]
    /\ UNCHANGED <<qsearch, qentry>>
    /\ UNCHANGED <<mfVars, ctxDone, collVars, targetVars, cacheVars>>

\* Query q sends its next sample on the channel its collector was given
QSend(q) ==
    /\ qpc[q] = "send"
    /\ qpending[q] # <<>>
    /\ qpending' = [qpending EXCEPT ![q] = Tail(@)]
    /\ IF CollOf(q) = RawColl
       THEN /\ cacheChan' = Append(cacheChan, Head(qpending[q]))
            /\ UNCHANGED out
       ELSE /\ out' = Append(out, Head(qpending[q]))
            /\ UNCHANGED cacheChan
    /\ UNCHANGED <<qpc, qsearch, qmfcalls, qoutcome, qentry>>
    /\ UNCHANGED <<mfVars, ctxDone, collVars, tpc, tname, tclient, tup, tprobes, scrVars>>
    /\ UNCHANGED <<now, cacheSem, cache, ccpc, collTime, cacheTime, ccout, ccraw>>

\* q.Collect returns and the goroutine's deferred wg.Done() runs
QDone(q) ==
    /\ qpc[q] = "send"
    /\ qpending[q] = <<>>
    /\ qpc' = [qpc EXCEPT ![q] = "done"]
    /\ wg' = [wg EXCEPT ![CollOf(q)] = @ - 1]
    /\ UNCHANGED <<qpending, qsearch, qmfcalls, qoutcome, qentry>>
    /\ UNCHANGED <<mfVars, ctxDone, cpc, cctx, cstarts, targetVars, cacheVars>>

(***************************************************************************)
(* collector                                                               *)
(***************************************************************************)
CollIdle ==
    /\ cpc = [c \in Colls |-> "idle"]
    /\ cctx = [c \in Colls |-> "none"]
    /\ wg = [c \in Colls |-> 0]
    /\ cstarts = [c \in Colls |-> 0]

\* collector.Collect: wg.Add(len(c.queries)) and one goroutine per query
CollStart(c) ==
    /\ cpc[c] = "start"
    /\ cpc' = [cpc EXCEPT ![c] = "wait"]
    /\ wg' = [wg EXCEPT ![c] = Cardinality(QueriesOf(c))]
    /\ qpc' = [q \in Queries |-> IF q \in QueriesOf(c) THEN "start" ELSE qpc[q]]
    /\ UNCHANGED <<qpending, qsearch, qmfcalls, qoutcome, qentry, cctx, cstarts>>
    /\ UNCHANGED <<mfVars, ctxDone, targetVars, cacheVars>>

\* a variant of BarrierOpen that does not wait
BarrierOpenAlways(c) == TRUE

\* collector.Collect: wg.Wait() returns once the counter is zero
BarrierOpen(c) == wg[c] = 0

\* collector.Collect returns
CollReturn(c) ==
    /\ cpc[c] = "wait"
    /\ BarrierOpen(c)
    /\ cpc' = [cpc EXCEPT ![c] = "returned"]
    /\ UNCHANGED <<cctx, wg, cstarts>>
    /\ UNCHANGED <<mfVars, ctxDone, queryVars, targetVars, cacheVars>>

(***************************************************************************)
(* Target (section 4.5 of the specification): one scrape.                  *)
(***************************************************************************)
Scrape == "scrape"

UpDesc == NewAutomaticMetricDesc("up", ConstLabels)

ScrapeDurationDesc == NewAutomaticMetricDesc("scrape_duration", ConstLabels)

boolToFloat64(b) == IF b THEN Float(1) ELSE Float(0)

\* the durations a scrape may be measured to have taken
Durations == {0, 1}

\* a variant of RunCollectors that runs them whatever the probe said
RunCollectorsAlways(targetUp) == TRUE

\* Target.Collect: the collectors run only if the health probe succeeded
RunCollectors(targetUp) == targetUp

\* a variant of ProbeIssued that probes whatever the context says
ProbeIssuedAlways(cancelled) == TRUE

\* Target.Collect: the context is checked before the backend is probed
ProbeIssued(cancelled) == ~cancelled

\* Target.Collect: the client is established if there is none yet and the
\* backend's health is probed, unless the context is done; a failure is
\* reported as one invalid metric
TProbe ==
    /\ tpc = "start"
    /\ tclient' = IF tclient = "nil" THEN "client" ELSE tclient
    /\ tprobes' = tprobes + (IF ProbeIssued(ctxDone[Scrape]) THEN 1 ELSE 0)
    /\ \E healthy \in BOOLEAN :
         LET up == healthy /\ ~ctxDone[Scrape]
             err == IF ctxDone[Scrape] THEN CtxErr
                    ELSE [context |-> "", msg |-> <<"ping failed">>]
         IN  /\ tup' = up
             /\ out' = IF up THEN out
                       ELSE Append(out, NewInvalidMetric(Wrap("target", err)))
    /\ tpc' = "probed"
    /\ UNCHANGED <<tname, scrVars>>
    /\ UNCHANGED <<mfVars, ctxDone, queryVars, collVars, cacheVars>>

SyntheticSentAlways(name) == TRUE

\* Target.Collect: the target's own metrics are sent in multi-target mode,
\* that is when the target has a name
SyntheticSent(name) == name # ""

\* Target.Collect: in multi-target mode the up metric, right after the probe
TUp ==
    /\ tpc = "probed"
    /\ out' = IF SyntheticSent(tname)
              THEN Append(out, NewMetric(UpDesc, boolToFloat64(tup), <<>>))
              ELSE out
    /\ tpc' = "fanout"
    /\ UNCHANGED <<tname, tclient, tup, tprobes, scrVars>>
    /\ UNCHANGED <<mfVars, ctxDone, queryVars, collVars, cacheVars>>

\* Target.Collect: one goroutine per collector, if the target is up
TFanout ==
    /\ tpc = "fanout"
    /\ IF RunCollectors(tup)
       THEN /\ cpc' = [c \in Colls |-> IF c \in TargetColls THEN "start" ELSE cpc[c]]
            /\ cctx' = [c \in Colls |-> IF c \in TargetColls THEN Scrape ELSE cctx[c]]
            /\ cstarts' = [c \in Colls |-> IF c \in TargetColls THEN cstarts[c] + 1
                                           ELSE cstarts[c]]
       ELSE UNCHANGED <<cpc, cctx, cstarts>>
    /\ tpc' = "wait"
    /\ UNCHANGED <<tname, tclient, tup, tprobes, out, wg, scrVars>>
    /\ UNCHANGED <<mfVars, ctxDone, queryVars, cacheVars>>

\* Target.Collect: once every collector started has returned, the scrape
\* duration metric (in multi-target mode), and return
TFinish ==
    /\ tpc = "wait"
    /\ \A c \in TargetColls : cpc[c] \in {"idle", "returned"}
    /\ \E d \in Durations :
         out' = IF SyntheticSent(tname)
                THEN Append(out, NewMetric(ScrapeDurationDesc, Float(d), <<>>))
                ELSE out
    /\ tpc' = "done"
    /\ UNCHANGED <<tname, tclient, tup, tprobes, scrVars>>
    /\ UNCHANGED <<mfVars, ctxDone, queryVars, collVars, cacheVars>>

\* the scrape's context is cancelled, or its deadline passes
CancelScrape ==
    /\ tpc # "done"
    /\ ~ctxDone[Scrape]
    /\ ctxDone' = [ctxDone EXCEPT ![Scrape] = TRUE]
    /\ UNCHANGED <<mfVars, queryVars, collVars, targetVars, cacheVars>>

(***************************************************************************)
(* Target (sections 4.5 and 5 of the specification): the client handle     *)
(* over several scrapes of one Target, in sequence and overlapping.  The   *)
(* client is established lazily and nothing but the cachingCollector's     *)
(* slot excludes one call from another, so the read of the handle and its  *)
(* assignment are two steps of a scrape.  The Collectors only read the     *)
(* handle; their run is one phase of the scrape.                           *)
(***************************************************************************)
Scrapes == {"s1", "s2"}

\* the client a scrape constructs
ClientOf(s) == IF s = "s1" THEN "client1" ELSE "client2"

ScrapesIdle ==
    /\ spc = [s \in Scrapes |-> "idle"]
    /\ sseen = [s \in Scrapes |-> "nil"]
    /\ srounds = [s \in Scrapes |-> 0]
    /\ twrites = 0
    /\ twhile = FALSE

\* a call of Target.Collect arrives
SBegin(s) ==
    /\ spc[s] \in {"idle", "done"}
    /\ srounds[s] < MaxScrapes
    /\ srounds' = [srounds EXCEPT ![s] = @ + 1]
    /\ spc' = [spc EXCEPT ![s] = "start"]
    /\ UNCHANGED <<sseen, twrites, twhile>>
    /\ UNCHANGED <<tpc, tname, tclient, tup, tprobes, out>>
    /\ UNCHANGED <<mfVars, ctxDone, queryVars, collVars, cacheVars>>

\* Target.Collect: is there a client yet?
SRead(s) ==
    /\ spc[s] = "start"
    /\ sseen' = [sseen EXCEPT ![s] = tclient]
    /\ spc' = [spc EXCEPT ![s] = "read"]
    /\ UNCHANGED <<srounds, twrites, twhile>>
    /\ UNCHANGED <<tpc, tname, tclient, tup, tprobes, out>>
    /\ UNCHANGED <<mfVars, ctxDone, queryVars, collVars, cacheVars>>

\* Target.Collect: if there was none, a client is constructed and assigned to
\* the handle
SEstablish(s) ==
    /\ spc[s] = "read"
    /\ IF sseen[s] = "nil"
       THEN /\ tclient' = ClientOf(s)
            /\ twrites' = twrites + 1
            /\ twhile' = (twhile \/ \E o \in Scrapes : spc[o] = "collect")
       ELSE UNCHANGED <<tclient, twrites, twhile>>
    /\ spc' = [spc EXCEPT ![s] = "probe"]
    /\ UNCHANGED <<sseen, srounds>>
    /\ UNCHANGED <<tpc, tname, tup, tprobes, out>>
    /\ UNCHANGED <<mfVars, ctxDone, queryVars, collVars, cacheVars>>

\* Target.Collect: the health probe; the Collectors are started if it succeeds
SProbe(s) ==
    /\ spc[s] = "probe"
    /\ \E healthy \in BOOLEAN :
         spc' = [spc EXCEPT ![s] = IF RunCollectors(healthy) THEN "collect" ELSE "done"]
    /\ UNCHANGED <<sseen, srounds, twrites, twhile>>
    /\ UNCHANGED <<tpc, tname, tclient, tup, tprobes, out>>
    /\ UNCHANGED <<mfVars, ctxDone, queryVars, collVars, cacheVars>>

\* Target.Collect: the Collectors have all returned, and so does the scrape
SCollected(s) ==
    /\ spc[s] = "collect"
    /\ spc' = [spc EXCEPT ![s] = "done"]
    /\ UNCHANGED <<sseen, srounds, twrites, twhile>>
    /\ UNCHANGED <<tpc, tname, tclient, tup, tprobes, out>>
    /\ UNCHANGED <<mfVars, ctxDone, queryVars, collVars, cacheVars>>

(***************************************************************************)
(* cachingCollector                                                        *)
(***************************************************************************)
\* rawColl.config.MinInterval, in ticks of the clock
MinInterval == 1

\* time.Time{}, the time put into cacheSem by newCachingCollector.  The wall
\* clock is further from it than any MinInterval.
ZeroTime == 0

StartTime == ZeroTime + MinInterval + 1

\* collTime.Sub(cacheTime)
Sub(t, u) == t - u

\* a variant of Stale that also refreshes a cache exactly MinInterval old
StaleAtInterval(age) == age >= MinInterval

\* cachingCollector.Collect: age > cc.minInterval
Stale(age) == age > MinInterval

\* a variant of Receive that leaves the value in the channel
ReceiveKeep(sem) == sem

\* cachingCollector.Collect: what <-cc.cacheSem leaves in the channel
Receive(sem) == Tail(sem)

Holding(p) == ccpc[p] \in {"refresh", "serve", "release"}

CacheIdle ==
    /\ now = StartTime
    /\ cacheSem = <<>>
    /\ cache = <<>>
    /\ cacheChan = <<>>
    /\ ccpc = [p \in Callers |-> "idle"]
    /\ collTime = [p \in Callers |-> ZeroTime]
    /\ cacheTime = [p \in Callers |-> ZeroTime]
    /\ ccout = [p \in Callers |-> <<>>]
    /\ ccraw = [p \in Callers |-> 0]

\* cachingCollector.Collect: the check of the context on entry, and
\* collTime := time.Now()
CCEnter(p) ==
    /\ ccpc[p] = "idle"
    /\ IF ctxDone[p]
       THEN /\ ccout' = [ccout EXCEPT ![p] = Append(@, NewInvalidMetric(Wrap(RawColl, CtxErr)))]
            /\ ccpc' = [ccpc EXCEPT ![p] = "cancelled"]
            /\ UNCHANGED collTime
       ELSE /\ collTime' = [collTime EXCEPT ![p] = now]
            /\ ccpc' = [ccpc EXCEPT ![p] = "select"]
            /\ UNCHANGED ccout
    /\ UNCHANGED <<now, cacheSem, cache, cacheChan, cacheTime, ccraw>>
    /\ UNCHANGED <<mfVars, ctxDone, queryVars, collVars, targetVars>>

\* a variant of CCAcquire that refreshes into the cache as it is
CCAcquireKeepCache(p) ==
    /\ ccpc[p] = "select"
    /\ cacheSem # <<>>
    /\ cacheTime' = [cacheTime EXCEPT ![p] = Head(cacheSem)]
    /\ cacheSem' = Receive(cacheSem)
    /\ IF Stale(Sub(collTime[p], Head(cacheSem)))
       THEN /\ ccpc' = [ccpc EXCEPT ![p] = "refresh"]
            /\ cacheChan' = <<>>
            /\ ccraw' = [ccraw EXCEPT ![p] = @ + 1]
            /\ cpc' = [cpc EXCEPT ![RawColl] = "start"]
            /\ cctx' = [cctx EXCEPT ![RawColl] = p]
            /\ cstarts' = [cstarts EXCEPT ![RawColl] = @ + 1]
            /\ UNCHANGED cache
       ELSE /\ ccpc' = [ccpc EXCEPT ![p] = "serve"]
            /\ UNCHANGED <<cache, cacheChan, ccraw, cpc, cctx, cstarts>>
    /\ UNCHANGED <<now, collTime, ccout, wg>>
    /\ UNCHANGED <<mfVars, ctxDone, queryVars, targetVars>>

\* cachingCollector.Collect: the select receives from cacheSem; a stale cache
\* is emptied and rawColl.Collect is started on a new cacheChan
CCAcquire(p) ==
    /\ ccpc[p] = "select"
    /\ cacheSem # <<>>
    /\ cacheTime' = [cacheTime EXCEPT ![p] = Head(cacheSem)]
    /\ cacheSem' = Receive(cacheSem)
    /\ IF Stale(Sub(collTime[p], Head(cacheSem)))
       THEN /\ ccpc' = [ccpc EXCEPT ![p] = "refresh"]
            /\ cache' = <<>>
            /\ cacheChan' = <<>>
            /\ ccraw' = [ccraw EXCEPT ![p] = @ + 1]
            /\ cpc' = [cpc EXCEPT ![RawColl] = "start"]
            /\ cctx' = [cctx EXCEPT ![RawColl] = p]
            /\ cstarts' = [cstarts EXCEPT ![RawColl] = @ + 1]
       ELSE /\ ccpc' = [ccpc EXCEPT ![p] = "serve"]
            /\ UNCHANGED <<cache, cacheChan, ccraw, cpc, cctx, cstarts>>
    /\ UNCHANGED <<now, collTime, ccout, wg>>
    /\ UNCHANGED <<mfVars, ctxDone, queryVars, targetVars>>

\* a variant of CCCancelled that also puts a time into cacheSem, as a release
\* deferred for every path would
CCCancelledRelease(p) ==
    /\ ccpc[p] = "select"
    /\ ctxDone[p]
    /\ ccout' = [ccout EXCEPT ![p] = Append(@, NewInvalidMetric(Wrap(RawColl, CtxErr)))]
    /\ ccpc' = [ccpc EXCEPT ![p] = "cancelled"]
    /\ cacheSem' = <<cacheTime[p]>>
    /\ UNCHANGED <<now, cache, cacheChan, collTime, cacheTime, ccraw>>
    /\ UNCHANGED <<mfVars, ctxDone, queryVars, collVars, targetVars>>

\* cachingCollector.Collect: the select receives from ctx.Done()
CCCancelled(p) ==
    /\ ccpc[p] = "select"
    /\ ctxDone[p]
    /\ ccout' = [ccout EXCEPT ![p] = Append(@, NewInvalidMetric(Wrap(RawColl, CtxErr)))]
    /\ ccpc' = [ccpc EXCEPT ![p] = "cancelled"]
    /\ UNCHANGED <<now, cacheSem, cache, cacheChan, collTime, cacheTime, ccraw>>
    /\ UNCHANGED <<mfVars, ctxDone, queryVars, collVars, targetVars>>

\* a variant of CCRecv that forwards an invalid metric without caching it
CCRecvValidOnly(p) ==
    /\ ccpc[p] = "refresh"
    /\ cacheChan # <<>>
    /\ cache' = IF IsInvalid(Head(cacheChan)) THEN cache
                ELSE Append(cache, Head(cacheChan))
    /\ ccout' = [ccout EXCEPT ![p] = Append(@, Head(cacheChan))]
    /\ cacheChan' = Tail(cacheChan)
    /\ UNCHANGED <<now, cacheSem, ccpc, collTime, cacheTime, ccraw>>
    /\ UNCHANGED <<mfVars, ctxDone, queryVars, collVars, targetVars>>

\* cachingCollector.Collect: one turn of the loop over cacheChan
CCRecv(p) ==
    /\ ccpc[p] = "refresh"
    /\ cacheChan # <<>>
    /\ cache' = Append(cache, Head(cacheChan))
    /\ ccout' = [ccout EXCEPT ![p] = Append(@, Head(cacheChan))]
    /\ cacheChan' = Tail(cacheChan)
    /\ UNCHANGED <<now, cacheSem, ccpc, collTime, cacheTime, ccraw>>
    /\ UNCHANGED <<mfVars, ctxDone, queryVars, collVars, targetVars>>

\* cachingCollector.Collect: rawColl.Collect has returned, cacheChan is closed
\* and drained; cacheTime = collTime.  The goroutines of the run are gone, and
\* what is recorded of them is forgotten.
CCRefreshed(p) ==
    /\ ccpc[p] = "refresh"
    /\ cacheChan = <<>>
    /\ cpc[RawColl] = "returned"
    /\ cacheTime' = [cacheTime EXCEPT ![p] = collTime[p]]
    /\ ccpc' = [ccpc EXCEPT ![p] = "release"]
    /\ cpc' = [cpc EXCEPT ![RawColl] = "idle"]
    /\ cctx' = [cctx EXCEPT ![RawColl] = "none"]
    /\ qpc' = [q \in Queries |-> "idle"]
    /\ qpending' = [q \in Queries |-> <<>>]
    /\ qsearch' = [q \in Queries |-> 0]
    /\ qmfcalls' = [q \in Queries |-> 0]
    /\ qoutcome' = [q \in Queries |-> "none"]
    /\ qentry' = [q \in Queries |-> "none"]
    /\ UNCHANGED <<now, cacheSem, cache, cacheChan, collTime, ccout, ccraw>>
    /\ UNCHANGED <<mfVars, ctxDone, wg, cstarts, targetVars>>

\* cachingCollector.Collect: the cached metrics are sent as they are
CCServe(p) ==
    /\ ccpc[p] = "serve"
    /\ ccout' = [ccout EXCEPT ![p] = @ \o cache]
    /\ ccpc' = [ccpc EXCEPT ![p] = "release"]
    /\ UNCHANGED <<now, cacheSem, cache, cacheChan, collTime, cacheTime, ccraw>>
    /\ UNCHANGED <<mfVars, ctxDone, queryVars, collVars, targetVars>>

\* a variant of CCRelease that returns without sending on cacheSem
CCReleaseForgotten(p) ==
    /\ ccpc[p] = "release"
    /\ ccpc' = [ccpc EXCEPT ![p] = "done"]
    /\ UNCHANGED <<now, cacheSem, cache, cacheChan, collTime, cacheTime, ccout, ccraw>>
    /\ UNCHANGED <<mfVars, ctxDone, queryVars, collVars, targetVars>>

\* cachingCollector.Collect: cc.cacheSem <- cacheTime (a channel of capacity 1)
CCRelease(p) ==
    /\ ccpc[p] = "release"
    /\ Len(cacheSem) < 1
    /\ cacheSem' = Append(cacheSem, cacheTime[p])
    /\ ccpc' = [ccpc EXCEPT ![p] = "done"]
    /\ UNCHANGED <<now, cache, cacheChan, collTime, cacheTime, ccout, ccraw>>
    /\ UNCHANGED <<mfVars, ctxDone, queryVars, collVars, targetVars>>

\* the context of caller p is cancelled, or its deadline passes
CancelCaller(p) ==
    /\ ccpc[p] \notin {"done", "cancelled"}
    /\ ~ctxDone[p]
    /\ ctxDone' = [ctxDone EXCEPT ![p] = TRUE]
    /\ UNCHANGED <<mfVars, queryVars, collVars, targetVars, cacheVars>>

\* the wall clock advances (it is read on entry only, so its steps are taken
\* while some caller has yet to enter)
Tick ==
    /\ now < StartTime + MaxTime
    /\ \E p \in Callers : ccpc[p] = "idle"
    /\ now' = now + 1
    /\ UNCHANGED <<cacheSem, cache, cacheChan, ccpc, collTime, cacheTime, ccout, ccraw>>
    /\ UNCHANGED <<mfVars, ctxDone, queryVars, collVars, targetVars>>

(***************************************************************************)
(* gjson: the values of a parsed response.  A value is a number, a string, *)
(* null or missing; Float and String convert as gjson does.                *)
(***************************************************************************)
Num(n) == [t |-> "num", n |-> n, s |-> ""]

Str(s) == [t |-> "str", n |-> 0, s |-> s]

Null == [t |-> "null", n |-> 0, s |-> ""]

Missing == [t |-> "missing", n |-> 0, s |-> ""]

\* the decimal text of the numbers of the model
NumText(n) ==
    CASE n = 0 -> "0" [] n = 1 -> "1" [] n = 2 -> "2" [] n = 20 -> "20"
      [] n = 80 -> "80" [] n = 200 -> "200" [] n = 500 -> "500"

\* strconv.ParseFloat on the strings of the model; 0 when it fails
ParseFloat(s) ==
    CASE s = "200" -> Float(200) [] s = "500" -> Float(500) [] OTHER -> Float(0)

\* gjson Result.Float
GFloat(v) ==
    CASE v.t = "num" -> Float(v.n)
      [] v.t = "str" -> ParseFloat(v.s)
      [] OTHER -> Float(0)

\* gjson Result.String
GString(v) ==
    CASE v.t = "num" -> NumText(v.n)
      [] v.t = "str" -> v.s
      [] OTHER -> ""

Arr(a) == [t |-> "arr", n |-> 0, s |-> "", a |-> a]

\* gjson Result.Array: the elements of an array, nothing for a missing value
GArray(v) == IF v.t = "arr" THEN v.a ELSE <<>>

(***************************************************************************)
(* Aggregation handlers                                                    *)
(***************************************************************************)
NilHandler == [type |-> "nil", name |-> ""]

TermsAggregationHandler(name) == [type |-> "terms", name |-> name]

StatsAggregationHandler == [type |-> "stats", name |-> ""]

SingleValueAggregationHandler == [type |-> "single", name |-> ""]

\* config.AggregationType: the kinds NewForType names
HandledTypes == {"terms", "stats", "max", "min", "sum", "avg", "cardinality"}

\* fmt.Errorf("handler for %s not implemented", aggType)
NotImplemented(aggType) ==
    [context |-> "", msg |-> <<"handler not implemented", aggType>>]

\* a variant of NewForType that returns no error for an unknown kind
NewForTypeLenient(aggType, name) ==
    CASE aggType = "terms" -> [handler |-> TermsAggregationHandler(name), err |-> NoError]
      [] aggType = "stats" -> [handler |-> StatsAggregationHandler, err |-> NoError]
      [] aggType = "cardinality" ->
            [handler |-> SingleValueAggregationHandler, err |-> NoError]
      [] OTHER -> [handler |-> NilHandler, err |-> NoError]

\* NewForType: a Go switch does not fall through, so the empty cases of max,
\* min, sum and avg leave handler nil and return it with a nil error
NewForType(aggType, name) ==
    CASE aggType = "terms" -> [handler |-> TermsAggregationHandler(name), err |-> NoError]
      [] aggType = "stats" -> [handler |-> StatsAggregationHandler, err |-> NoError]
      [] aggType = "max" -> [handler |-> NilHandler, err |-> NoError]
      [] aggType = "min" -> [handler |-> NilHandler, err |-> NoError]
      [] aggType = "sum" -> [handler |-> NilHandler, err |-> NoError]
      [] aggType = "avg" -> [handler |-> NilHandler, err |-> NoError]
      [] aggType = "cardinality" ->
            [handler |-> SingleValueAggregationHandler, err |-> NoError]
      [] OTHER -> [handler |-> NilHandler, err |-> NotImplemented(aggType)]

\* the data the loop of TermsAggregationHandler.Handle appends
RECURSIVE BucketsData(_, _)
BucketsData(name, buckets) ==
    IF buckets = <<>> THEN <<>>
    ELSE <<newLabeledMetricData(GFloat(Head(buckets).doc_count), name,
                                GString(Head(buckets).key))>>
         \o BucketsData(name, Tail(buckets))

\* a variant of TermsHandle that puts the buckets' data before the accumulator
TermsHandleInFront(t, result, metricsData) ==
    BucketsData(t.name, GArray(result.buckets)) \o metricsData

\* TermsAggregationHandler.Handle
TermsHandle(t, result, metricsData) ==
    metricsData \o BucketsData(t.name, GArray(result.buckets))

\* SingleValueAggregationHandler.Handle
SingleValueHandle(result, metricsData) ==
    Append(metricsData, newMetricData(GFloat(result.value)))

\* a variant of StatsHandle that appends sum before avg
StatsHandleSumFirst(result, metricsData) ==
    metricsData \o
    <<newLabeledMetricData(GFloat(result.count), "stat", "count"),
      newLabeledMetricData(GFloat(result.min), "stat", "min"),
      newLabeledMetricData(GFloat(result.max), "stat", "max"),
      newLabeledMetricData(GFloat(result.sum), "stat", "sum"),
      newLabeledMetricData(GFloat(result.avg), "stat", "avg")>>

\* StatsAggregationHandler.Handle
StatsHandle(result, metricsData) ==
    metricsData \o
    <<newLabeledMetricData(GFloat(result.count), "stat", "count"),
      newLabeledMetricData(GFloat(result.min), "stat", "min"),
      newLabeledMetricData(GFloat(result.max), "stat", "max"),
      newLabeledMetricData(GFloat(result.avg), "stat", "avg"),
      newLabeledMetricData(GFloat(result.sum), "stat", "sum")>>

\* handler.Handle(result, metricsData): the method of the handler's type
Handle(handler, result, metricsData) ==
    CASE handler.type = "terms" -> TermsHandle(handler, result, metricsData)
      [] handler.type = "stats" -> StatsHandle(result, metricsData)
      [] handler.type = "single" -> SingleValueHandle(result, metricsData)

(***************************************************************************)
(* SpecFamilies: the descriptors of a target, built from one constLabels.  *)
(* A Go slice is a backing array, a length and a capacity; arrays are      *)
(* numbered and shHeap[a] holds the cells of array a.  append writes into  *)
(* the array of its first argument when the capacity suffices and into a   *)
(* new array otherwise; sort.Sort orders the cells of a slice in place.    *)
(***************************************************************************)
\* a cell no slice has reached yet
Spare == [name |-> "", value |-> ""]

NoSlice == [arr |-> 0, len |-> 0, cap |-> 0]

\* the elements of slice s
Deref(heap, s) == IF s.len = 0 THEN <<>> ELSE SubSeq(heap[s.arr], 1, s.len)

\* s[:0:0]
EmptyOf(s) == [arr |-> s.arr, len |-> 0, cap |-> 0]

\* append(s, elems...): the heap and the slice it returns
GoAppend(heap, s, elems) ==
    IF elems = <<>> THEN [heap |-> heap, slice |-> s]
    ELSE IF s.len + Len(elems) <= s.cap
    THEN [heap |-> [heap EXCEPT ![s.arr] =
                       [i \in 1..Len(@) |->
                           IF i > s.len /\ i <= s.len + Len(elems)
                           THEN elems[i - s.len] ELSE @[i]]],
          slice |-> [s EXCEPT !.len = s.len + Len(elems)]]
    ELSE [heap |-> Append(heap, Deref(heap, s) \o elems),
          slice |-> [arr |-> Len(heap) + 1, len |-> s.len + Len(elems),
                     cap |-> s.len + Len(elems)]]

\* sort.Sort(labelPairSorter(s)): the heap after it
SortInPlace(heap, s) ==
    IF s.len = 0 THEN heap
    ELSE [heap EXCEPT ![s.arr] =
             [i \in 1..Len(@) |->
                 IF i <= s.len THEN SortPairs(Deref(heap, s))[i] ELSE @[i]]]

\* a variant of CopyOfConstLabels that goes on with constLabels itself
CopyOfConstLabelsAliased(heap, constLabels) == [heap |-> heap, slice |-> constLabels]

\* metric.go NewMetricFamily: append(constLabels[:0:0], constLabels...)
CopyOfConstLabels(heap, constLabels) ==
    GoAppend(heap, EmptyOf(constLabels), Deref(heap, constLabels))

\* metric.go NewMetricFamily on slices: the heap it leaves and the slice in
\* the family's constLabels
NewMetricFamilyOn(heap, constLabels, staticLabels) ==
    LET copy == CopyOfConstLabels(heap, constLabels)
        sortedLabels == GoAppend(copy.heap, copy.slice, staticLabels)
    IN  [heap |-> SortInPlace(sortedLabels.heap, sortedLabels.slice),
         constLabels |-> sortedLabels.slice]

ShIdle ==
    /\ shHeap = <<>>
    /\ shConst = NoSlice
    /\ shOrig = <<>>
    /\ shFams = <<>>
    /\ shAuto = <<>>

\* NewMetricFamily(logContext, mc, constLabels), the static labels of mc drawn
\* in an order the map may yield
ShNewMetricFamily ==
    /\ Len(shFams) < MaxFamilies
    /\ \E staticLabels \in Arrangements(StaticPairs, MaxLabels) :
         LET r == NewMetricFamilyOn(shHeap, shConst, staticLabels)
         IN  /\ shHeap' = r.heap
             /\ shFams' = Append(shFams, [staticLabels |-> staticLabels,
                                          constLabels |-> r.constLabels])
    /\ UNCHANGED <<shConst, shOrig, shAuto>>
    /\ UNCHANGED <<mfIn, mfOut, mfDone, lpVars, aggVars, qrVars>>
    /\ UNCHANGED <<ctxDone, queryVars, collVars, targetVars, cacheVars>>

\* NewAutomaticMetricDesc(..., constLabels) for up, then for scrape_duration:
\* the descriptor keeps the slice it is handed
ShNewAutomaticMetricDesc ==
    /\ Len(shAuto) < 2
    /\ shAuto' = Append(shAuto,
                    NewAutomaticMetricDesc(IF shAuto = <<>> THEN "up"
                                           ELSE "scrape_duration", shConst))
    /\ UNCHANGED <<shHeap, shConst, shOrig, shFams>>
    /\ UNCHANGED <<mfIn, mfOut, mfDone, lpVars, aggVars, qrVars>>
    /\ UNCHANGED <<ctxDone, queryVars, collVars, targetVars, cacheVars>>

(***************************************************************************)
(* SpecQuery: Query.Collect, after run has returned, on bounded responses. *)
(* A response holds the aggregation the query requested, others, or both,  *)
(* in any order of the map.                                                *)
(***************************************************************************)
ResponseAggs ==
    {[name |-> "code", buckets |-> <<[key |-> "200", doc_count |-> 1]>>],
     [name |-> "code", buckets |-> <<[key |-> "200", doc_count |-> 1],
                                     [key |-> "500", doc_count |-> 1]>>],
     [name |-> "stat", buckets |-> <<[key |-> "max", doc_count |-> 1]>>],
     [name |-> "job", buckets |-> <<>>]}

\* the keys of a JSON object are distinct
DistinctAggs(aggs) == \A i, j \in 1..Len(aggs) : i # j => aggs[i].name # aggs[j].name

Bodies ==
    [total : {2, 4}, aggs : {a \in Arrangements(ResponseAggs, MaxAggs) : DistinctAggs(a)}]

QueryInputs == [q : Queries, body : Bodies]

NoQueryInput == [q |-> "", body |-> EmptyBody]

NoQueryOutput == [pending |-> <<>>, mfcalls |-> 0]

QrIdle == qrIn = NoQueryInput /\ qrOut = NoQueryOutput /\ qrDone = FALSE

\* q.Collect(ctx, client, ch) with a live context and the response drawn
CallQueryCollect ==
    /\ ~qrDone
    /\ qrOut' = QueryShape(qrIn.q, run(qrIn.q,
                    [result |-> TRUE, isError |-> FALSE, body |-> qrIn.body,
                     err |-> NoError]))
    /\ qrDone' = TRUE
    /\ UNCHANGED <<mfIn, mfOut, mfDone, lpVars, aggVars, shVars, qrIn>>
    /\ UNCHANGED <<ctxDone, queryVars, collVars, targetVars, cacheVars>>

(***************************************************************************)
(* SpecAgg: NewForType applied to a kind and Handle applied to bounded     *)
(* aggregation results and accumulators.                                   *)
(***************************************************************************)
\* a result in which only the fields named in r are present
ResultOf(buckets, value, count, min, max, avg, sum) ==
    [buckets |-> buckets, value |-> value, count |-> count, min |-> min,
     max |-> max, avg |-> avg, sum |-> sum]

Buckets ==
    [key : {Str("200"), Str("500"), Num(200)}, doc_count : {Num(20), Num(80), Missing}]

TermsResults ==
    {ResultOf(Arr(b), Missing, Missing, Missing, Missing, Missing, Missing) :
        b \in SeqsUpTo(Buckets, MaxBuckets)}

StatValues == {Num(1), Num(2), Null}

StatsResults ==
    {ResultOf(Missing, Missing, st[1], st[2], st[3], st[4], st[5]) :
        st \in [1..5 -> StatValues]}

ValueResults ==
    {ResultOf(Missing, v, Missing, Missing, Missing, Missing, Missing) :
        v \in {Num(1), Num(2), Null, Str("200")}}

\* the kinds of the model: those NewForType names and two it does not
AggregationTypes == HandledTypes \cup {"histogram", ""}

Accumulators ==
    {<<>>, <<newMetricData(Float(7))>>,
     <<newLabeledMetricData(Float(7), "code", "404"), newMetricData(Float(7))>>}

AggInputs ==
    [aggType : {"terms"}, name : {"code", "http_code"}, result : TermsResults,
     acc : Accumulators]
    \cup [aggType : {"stats"}, name : {"code"}, result : StatsResults,
          acc : Accumulators]
    \cup [aggType : AggregationTypes \ {"terms", "stats"}, name : {"code"},
          result : ValueResults, acc : Accumulators]

NoAggInput ==
    [aggType |-> "", name |-> "",
     result |-> ResultOf(Missing, Missing, Missing, Missing, Missing, Missing, Missing),
     acc |-> <<>>]

NotBuilt == [handler |-> NilHandler, err |-> NoError]

AggIdle == aggIn = NoAggInput /\ aggNew = NotBuilt /\ aggOut = <<>> /\ aggpc = "idle"

\* handler, err := NewForType(aggType, name)
AggNew ==
    /\ aggpc = "new"
    /\ aggNew' = NewForType(aggIn.aggType, aggIn.name)
    /\ aggpc' = "built"
    /\ UNCHANGED <<mfIn, mfOut, mfDone, lpVars, qrVars, shVars, aggIn, aggOut>>
    /\ UNCHANGED <<ctxDone, queryVars, collVars, targetVars, cacheVars>>

\* metricsData = handler.Handle(result, metricsData)
AggHandle ==
    /\ aggpc = "built"
    /\ aggNew.handler # NilHandler
    /\ aggOut' = Handle(aggNew.handler, aggIn.result, aggIn.acc)
    /\ aggpc' = "handled"
    /\ UNCHANGED <<mfIn, mfOut, mfDone, lpVars, qrVars, shVars, aggIn, aggNew>>
    /\ UNCHANGED <<ctxDone, queryVars, collVars, targetVars, cacheVars>>

\* a call of Handle on the nil handler runs no Handle: it panics
AggNilHandle ==
    /\ aggpc = "built"
    /\ aggNew.handler = NilHandler
    /\ aggpc' = "panicked"
    /\ UNCHANGED <<mfIn, mfOut, mfDone, lpVars, qrVars, shVars, aggIn, aggNew, aggOut>>
    /\ UNCHANGED <<ctxDone, queryVars, collVars, targetVars, cacheVars>>

(***************************************************************************)
(* The specifications.                                                     *)
(***************************************************************************)
Ctxs == {Scrape} \cup Callers

TargetIdle ==
    /\ tpc = "idle"
    /\ tname = ""
    /\ tclient = "nil"
    /\ tup = FALSE
    /\ tprobes = 0
    /\ out = <<>>
    /\ ScrapesIdle

\* MetricFamily.Collect on every input of the bounded sets
InitMF ==
    /\ mfIn \in Inputs
    /\ mfOut = <<>>
    /\ mfDone = FALSE
    /\ LabelsIdle
    /\ AggIdle
    /\ QrIdle
    /\ ShIdle
    /\ ctxDone = [x \in Ctxs |-> FALSE]
    /\ QueryIdle(Queries)
    /\ CollIdle
    /\ TargetIdle
    /\ CacheIdle

NextMF ==
    CallMFCollect /\ UNCHANGED <<ctxDone, queryVars, collVars, targetVars, cacheVars>>

SpecMF == InitMF /\ [][NextMF]_vars

\* NewMetric on every input of the bounded sets
InitLabels ==
    /\ mfIn = NoInput /\ mfOut = <<>> /\ mfDone = FALSE
    /\ lpIn \in LabelInputs
    /\ lpOut = NoMetric
    /\ lpDone = FALSE
    /\ AggIdle
    /\ QrIdle
    /\ ShIdle
    /\ ctxDone = [x \in Ctxs |-> FALSE]
    /\ QueryIdle(Queries)
    /\ CollIdle
    /\ TargetIdle
    /\ CacheIdle

NextLabels ==
    CallNewMetric /\ UNCHANGED <<ctxDone, queryVars, collVars, targetVars, cacheVars>>

SpecLabels == InitLabels /\ [][NextLabels]_vars

\* NewForType and Handle on every input of the bounded sets
InitAgg ==
    /\ MFIdle
    /\ QrIdle
    /\ ShIdle
    /\ aggIn \in AggInputs
    /\ aggNew = NotBuilt
    /\ aggOut = <<>>
    /\ aggpc = "new"
    /\ ctxDone = [x \in Ctxs |-> FALSE]
    /\ QueryIdle(Queries)
    /\ CollIdle
    /\ TargetIdle
    /\ CacheIdle

NextAgg == AggNew \/ AggHandle \/ AggNilHandle

SpecAgg == InitAgg /\ [][NextAgg]_vars

\* one scrape of a Target, in single-target or in multi-target mode
Init ==
    /\ MFIdle
    /\ AggIdle
    /\ QrIdle
    /\ ShIdle
    /\ ctxDone = [x \in Ctxs |-> FALSE]
    /\ QueryIdle(Queries)
    /\ CollIdle
    /\ tpc = "start"
    /\ tname \in {"", "t1"}
    /\ tclient = "nil"
    /\ tup = FALSE
    /\ tprobes = 0
    /\ out = <<>>
    /\ ScrapesIdle
    /\ CacheIdle

Next ==
    \/ TProbe
    \/ TUp
    \/ TFanout
    \/ TFinish
    \/ CancelScrape
    \/ \E c \in TargetColls : CollStart(c) \/ CollReturn(c)
    \/ \E q \in TargetQueries : QEnter(q) \/ QReturn(q) \/ QSend(q) \/ QDone(q)

Spec == Init /\ [][Next]_vars

\* Query.Collect on every input of the bounded sets
InitQuery ==
    /\ MFIdle
    /\ AggIdle
    /\ ShIdle
    /\ qrIn \in QueryInputs
    /\ qrOut = NoQueryOutput
    /\ qrDone = FALSE
    /\ ctxDone = [x \in Ctxs |-> FALSE]
    /\ QueryIdle(Queries)
    /\ CollIdle
    /\ TargetIdle
    /\ CacheIdle

NextQuery == CallQueryCollect

SpecQuery == InitQuery /\ [][NextQuery]_vars

\* the constant labels of a target, in an array with some capacity to spare,
\* before any descriptor is built from them
InitFamilies ==
    /\ MFIdle
    /\ AggIdle
    /\ QrIdle
    /\ \E c \in TargetConstLabels, spare \in 0..MaxSpare :
         /\ shHeap = <<c \o [i \in 1..spare |-> Spare]>>
         /\ shConst = [arr |-> 1, len |-> Len(c), cap |-> Len(c) + spare]
         /\ shOrig = c
    /\ shFams = <<>>
    /\ shAuto = <<>>
    /\ ctxDone = [x \in Ctxs |-> FALSE]
    /\ QueryIdle(Queries)
    /\ CollIdle
    /\ TargetIdle
    /\ CacheIdle

NextFamilies == ShNewMetricFamily \/ ShNewAutomaticMetricDesc

SpecFamilies == InitFamilies /\ [][NextFamilies]_vars

\* the scrapes of one Target, as its constructor leaves it
InitScrapes ==
    /\ MFIdle
    /\ AggIdle
    /\ QrIdle
    /\ ShIdle
    /\ ctxDone = [x \in Ctxs |-> FALSE]
    /\ QueryIdle(Queries)
    /\ CollIdle
    /\ TargetIdle
    /\ CacheIdle

NextScrapes ==
    \E s \in Scrapes :
        SBegin(s) \/ SRead(s) \/ SEstablish(s) \/ SProbe(s) \/ SCollected(s)

SpecScrapes == InitScrapes /\ [][NextScrapes]_vars

\* the callers of one cachingCollector, as newCachingCollector leaves it
InitCache ==
    /\ MFIdle
    /\ AggIdle
    /\ QrIdle
    /\ ShIdle
    /\ ctxDone = [x \in Ctxs |-> FALSE]
    /\ QueryIdle(Queries)
    /\ CollIdle
    /\ TargetIdle
    /\ now = StartTime
    /\ cacheSem = <<ZeroTime>>
    /\ cache = <<>>
    /\ cacheChan = <<>>
    /\ ccpc = [p \in Callers |-> "idle"]
    /\ collTime = [p \in Callers |-> ZeroTime]
    /\ cacheTime = [p \in Callers |-> ZeroTime]
    /\ ccout = [p \in Callers |-> <<>>]
    /\ ccraw = [p \in Callers |-> 0]

NextCache ==
    \/ Tick
    \/ \E p \in Callers :
         \/ CCEnter(p)
         \/ CCAcquire(p)
         \/ CCCancelled(p)
         \/ CCRecv(p)
         \/ CCRefreshed(p)
         \/ CCServe(p)
         \/ CCRelease(p)
         \/ CancelCaller(p)
    \/ CollStart(RawColl)
    \/ CollReturn(RawColl)
    \/ \E q \in QueriesOf(RawColl) : QEnter(q) \/ QReturn(q) \/ QSend(q) \/ QDone(q)

SpecCache == InitCache /\ [][NextCache]_vars

\* the steps of the goroutines that are inside cachingCollector.Collect or
\* were started by it; not the arrival of a call, the cancellation of a
\* context or the clock
CacheProgress ==
    \/ \E p \in Callers :
         \/ CCAcquire(p)
         \/ CCCancelled(p)
         \/ CCRecv(p)
         \/ CCRefreshed(p)
         \/ CCServe(p)
         \/ CCRelease(p)
    \/ CollStart(RawColl)
    \/ CollReturn(RawColl)
    \/ \E q \in QueriesOf(RawColl) : QEnter(q) \/ QReturn(q) \/ QSend(q) \/ QDone(q)

\* SpecCache under a scheduler that does not stop while a goroutine can run:
\* the backend answers, the output is read
SpecCacheFair == InitCache /\ [][NextCache]_vars /\ WF_vars(CacheProgress)

(***************************************************************************)
(* Reading the output: whose sample a metric is.                           *)
(***************************************************************************)
FamilyNames(q) == {MetricFamiliesOf(q)[i].name : i \in 1..Len(MetricFamiliesOf(q))}

\* metric m was sent by Query q: an invalid metric carries q's log context,
\* a sample the descriptor of one of q's families
FromQuery(m, q) ==
    IF IsInvalid(m) THEN m.err.context = q ELSE m.desc \in FamilyNames(q)

FromCollector(m, c) == \E q \in QueriesOf(c) : FromQuery(m, q)

SamplesOf(s, q) == SelectSeq(s, LAMBDA m : FromQuery(m, q))

IsUp(m) == ~IsInvalid(m) /\ m.desc = UpDesc.name

IsDuration(m) == ~IsInvalid(m) /\ m.desc = ScrapeDurationDesc.name

Positions(s, P(_)) == {i \in 1..Len(s) : P(s[i])}

(***************************************************************************)
(* C10.  MetricFamily.Collect sends, in the order of the data, one sample  *)
(* for every datum that is unlabeled or carries a supported label and none *)
(* for a datum with an unsupported label; if and only if the family tracks *)
(* totals, one more sample follows them, unlabeled and of value total.     *)
(***************************************************************************)
Surviving(mf, data) ==
    SelectSeq(data, LAMBDA d : ~hasLabels(d) \/ supported(mf, d.label[1]))

\* sample m carries the label of datum d beside the family's constant labels
CarriesLabelOf(m, mf, d) ==
    IF hasLabels(d)
    THEN /\ Len(m.labelPairs) = Len(mf.constLabels) + 1
         /\ \E j \in 1..Len(m.labelPairs) :
               m.labelPairs[j] = [name |-> d.label[1].key, value |-> d.label[1].value]
    ELSE m.labelPairs = mf.constLabels

C10_FamilyCollect ==
    mfDone =>
        LET mf == mfIn.mf
            data == mfIn.data
            surv == Surviving(mf, data)
            n == Len(surv)
            unlabeled == {i \in 1..Len(data) : ~hasLabels(data[i])}
            labeled == {i \in 1..Len(data) :
                          hasLabels(data[i]) /\ supported(mf, data[i].label[1])}
        IN  /\ n = Cardinality(unlabeled) + Cardinality(labeled)
            /\ Len(mfOut) = n + (IF mf.trackTotal THEN 1 ELSE 0)
            /\ \A i \in 1..n :
                  /\ mfOut[i].kind = "metric"
                  /\ mfOut[i].desc = mf.name
                  /\ mfOut[i].val = calculateValue(mf, surv[i], mfIn.total)
                  /\ CarriesLabelOf(mfOut[i], mf, surv[i])
            /\ mf.trackTotal =>
                  /\ mfOut[n + 1].kind = "metric"
                  /\ mfOut[n + 1].val = Float(mfIn.total)
                  /\ mfOut[n + 1].labelPairs = mf.constLabels

\* a family that tracks totals was given a datum it keeps and one it drops
C10_Witness ==
    /\ mfDone
    /\ mfIn.mf.trackTotal
    /\ Len(mfIn.data) = 2
    /\ Len(Surviving(mfIn.mf, mfIn.data)) = 1
    /\ hasLabels(mfIn.data[1]) /\ hasLabels(mfIn.data[2])
    /\ Len(mfOut) = 2

(***************************************************************************)
(* C3.  A Query whose Collect is invoked with a context that is already    *)
(* done sends exactly one invalid metric (wrapping the context's error),   *)
(* issues no search, calls no MetricFamily.Collect and sends nothing else. *)
(***************************************************************************)
C3_CancelledOnEntry ==
    \A q \in TargetQueries :
        qentry[q] = "cancelled" =>
            /\ qsearch[q] = 0
            /\ qmfcalls[q] = 0
            /\ SamplesOf(out, q) \o qpending[q] = <<NewInvalidMetric(Wrap(q, CtxErr))>>
            /\ qpc[q] = "done" => SamplesOf(out, q) = <<NewInvalidMetric(Wrap(q, CtxErr))>>

\* a query that found its context done has returned
C3_Witness ==
    \E q \in TargetQueries : qentry[q] = "cancelled" /\ qpc[q] = "done"

(***************************************************************************)
(* C4.  A Query whose search failed, by a transport error or by an error   *)
(* response that came without a transport error, sends exactly one invalid *)
(* metric and calls MetricFamily.Collect on none of its families.          *)
(***************************************************************************)
C4_BackendFailure ==
    \A q \in TargetQueries :
        (qpc[q] = "done" /\ qoutcome[q] \in {"transport", "http"}) =>
            /\ qmfcalls[q] = 0
            /\ Len(SamplesOf(out, q)) = 1
            /\ IsInvalid(SamplesOf(out, q)[1])

C7_Joined ==
    \A c \in TargetColls :
        /\ cpc[c] \in {"wait", "returned"} => \A q \in QueriesOf(c) : qpc[q] # "idle"
        /\ cpc[c] = "returned" =>
              \A q \in QueriesOf(c) : qpc[q] = "done" /\ qpending[q] = <<>>

C7_NoSendAfterReturn ==
    \A c \in TargetColls :
        cpc[c] = "returned" =>
            \A q \in QueriesOf(c) : SamplesOf(out', q) = SamplesOf(out, q)

C7_Barrier == [](C7_Joined) /\ [][C7_NoSendAfterReturn]_vars

\* a collector has returned whose context was cancelled between the entries
\* of two of its queries, one of which had a search in flight
C7_Witness ==
    \E c \in TargetColls :
        /\ cpc[c] = "returned"
        /\ ctxDone[Scrape]
        /\ \E q \in QueriesOf(c) : qentry[q] = "live" /\ qsearch[q] = 1
        /\ \E q \in QueriesOf(c) : qentry[q] = "cancelled"

(***************************************************************************)
(* C8.  Failures are isolated: of the queries Q of a collector, those in F *)
(* whose search failed account for exactly |F| invalid metrics and every   *)
(* other query sends its complete set of samples; a failing collector does *)
(* not suppress a sibling collector.  (Stated for a context that stays     *)
(* live, so that every query reaches its search.)                          *)
(***************************************************************************)
CompleteSet(q) == QueryShape(q, [resp |-> Body(q), err |-> NoError]).pending

C8_Isolation ==
    (tpc = "done" /\ tup /\ ~ctxDone[Scrape]) =>
        \A c \in TargetColls :
            LET F == {q \in QueriesOf(c) : qoutcome[q] \in {"transport", "http"}}
                invalid == {i \in 1..Len(out) : IsInvalid(out[i]) /\ FromCollector(out[i], c)}
            IN  /\ cstarts[c] = 1
                /\ Cardinality(invalid) = Cardinality(F)
                /\ \A q \in QueriesOf(c) \ F : SamplesOf(out, q) = CompleteSet(q)

(***************************************************************************)
(* C1.  Two Collect calls on one cachingCollector, with contexts that stay *)
(* live, arriving at t1 <= t2 with t2 - t1 <= MinInterval, the first of    *)
(* which refreshes: the wrapped collector's Collect runs once for both,    *)
(* and the second call sends the very sequence the first one sent, whether *)
(* the calls overlap or not.  (No other caller refreshes meanwhile.)       *)
(***************************************************************************)
TwoCallsWithinInterval(a, b) ==
    /\ a # b
    /\ ccpc[a] = "done" /\ ccpc[b] = "done"
    /\ ~ctxDone[a] /\ ~ctxDone[b]
    /\ collTime[a] <= collTime[b]
    /\ collTime[b] - collTime[a] <= MinInterval
    /\ ccraw[a] = 1
    /\ \A c \in Callers \ {a, b} : ccraw[c] = 0

C1_Idempotent ==
    \A a, b \in Callers :
        TwoCallsWithinInterval(a, b) =>
            /\ ccraw[b] = 0
            /\ cstarts[RawColl] = 1
            /\ ccout[b] = ccout[a]

\* the second call arrived exactly MinInterval after the first, which had
\* refreshed and sent several samples
C1_Witness ==
    \E a, b \in Callers :
        /\ TwoCallsWithinInterval(a, b)
        /\ collTime[b] - collTime[a] = MinInterval
        /\ Len(ccout[a]) >= 2

(***************************************************************************)
(* C2.  At most one caller at a time holds the cache slot: the tokens in   *)
(* cacheSem and the callers between acquire and release always number one, *)
(* so at most one run of the wrapped collector is in progress and only the *)
(* holder reads or writes the cache.                                       *)
(***************************************************************************)
C2_SingleSlot ==
    /\ Len(cacheSem) + Cardinality({p \in Callers : Holding(p)}) = 1
    /\ Cardinality({p \in Callers : ccpc[p] = "refresh"}) <= 1
    /\ cpc[RawColl] \in {"start", "wait"} =>
          \E p \in Callers : ccpc[p] = "refresh" /\ cctx[RawColl] = p

\* one caller refreshes while another waits for the slot
C2_Witness ==
    \E p, o \in Callers :
        /\ ccpc[p] = "refresh" /\ cpc[RawColl] = "wait"
        /\ ccpc[o] = "select"
        /\ cacheSem = <<>>

(***************************************************************************)
(* C9.  A cachingCollector.Collect call that returns on cancellation, on   *)
(* entry or out of the wait for the slot, has sent exactly one invalid     *)
(* metric, has not acquired the slot and has not invoked the wrapped       *)
(* collector, and its return leaves the cache and the time in cacheSem as  *)
(* they were.                                                              *)
(***************************************************************************)
C9_Cancelled ==
    \A p \in Callers :
        ccpc[p] = "cancelled" =>
            /\ ccout[p] = <<NewInvalidMetric(Wrap(RawColl, CtxErr))>>
            /\ ccraw[p] = 0

C9_Frame ==
    \A p \in Callers :
        /\ (ccpc[p] # "cancelled" /\ ccpc'[p] = "cancelled") =>
              /\ ccpc[p] \in {"idle", "select"}
              /\ cache' = cache
              /\ cacheSem' = cacheSem
              /\ cacheChan' = cacheChan
        /\ ccpc[p] = "cancelled" => ccpc'[p] = "cancelled"

OnAllowList(mf, value) == \E i \in 1..Len(mf.filters) : mf.filters[i] = value

Filtered(mf, key) ==
    mf.hasAggregation /\ mf.filters # <<>> /\ mf.aggregationName = key

\* the labels of the labeled data that the claim says are kept, in order
KeptLabels(mf, data) ==
    LET lab == SelectSeq(data, LAMBDA d : d.label # <<>>)
        keep == SelectSeq(lab, LAMBDA d :
                    /\ d.label[1].key # "" /\ d.label[1].value # ""
                    /\ Filtered(mf, d.label[1].key) => OnAllowList(mf, d.label[1].value))
    IN  [i \in 1..Len(keep) |->
            [name |-> keep[i].label[1].key, value |-> keep[i].label[1].value]]

\* the labels of the labeled samples sent, in order: a labeled sample has one
\* pair more than the family's constant labels
SentLabels(mf, sent) ==
    LET lab == SelectSeq(sent, LAMBDA m : Len(m.labelPairs) = Len(mf.constLabels) + 1)
    IN  [i \in 1..Len(lab) |->
            CHOOSE pr \in {lab[i].labelPairs[j] : j \in 1..Len(lab[i].labelPairs)} :
                \A k \in 1..Len(mf.constLabels) : mf.constLabels[k] # pr]

C11_LabelFilter ==
    mfDone => SentLabels(mfIn.mf, mfOut) = KeptLabels(mfIn.mf, mfIn.data)

\* a family with an allow-list on "code" kept a label of another key whose
\* value is off the list and dropped a "code" label whose value is off it
C11_Witness ==
    /\ mfDone
    /\ mfIn.mf.hasAggregation /\ mfIn.mf.filters = <<"200">>
    /\ mfIn.mf.aggregationName = "code"
    /\ Len(mfIn.data) = 2
    /\ mfIn.data[1] = newLabeledMetricData(Float(50), "stat", "500")
    /\ mfIn.data[2] = newLabeledMetricData(Float(50), "code", "500")
    /\ SentLabels(mfIn.mf, mfOut) = <<[name |-> "stat", value |-> "500"]>>

(***************************************************************************)
(* C12.  The sample of a datum carries the datum's value unchanged when    *)
(* the family's value type is absolute and value * 100 / total when it is  *)
(* percentage and total is not 0 (value 50 of total 200 gives 25); the     *)
(* total sample carries total itself whatever the value type.              *)
(***************************************************************************)
\* fraction f is x * 100 / total, by cross-multiplication
IsPercentOf(f, x, total) ==
    /\ f.den # 0
    /\ f.num * x.den * total = x.num * 100 * f.den

\* the data that MetricFamily.Collect keeps, by the samples' label count
KeptData(mf, data) ==
    SelectSeq(data, LAMBDA d :
        d.label = <<>> \/ (/\ d.label[1].key # "" /\ d.label[1].value # ""
                           /\ Filtered(mf, d.label[1].key)
                                  => OnAllowList(mf, d.label[1].value)))

C12_ValueTransform ==
    mfDone =>
        LET mf == mfIn.mf
            kept == KeptData(mf, mfIn.data)
            n == Len(kept)
        IN  /\ Len(mfOut) >= n
            /\ \A i \in 1..n :
                  /\ mf.valueType = "absolute" => mfOut[i].val = kept[i].value
                  /\ mf.valueType = "percentage" /\ mfIn.total # 0 =>
                        /\ IsPercentOf(mfOut[i].val, kept[i].value, mfIn.total)
                        /\ kept[i].value = Float(50) /\ mfIn.total = 200 =>
                              mfOut[i].val = Float(25)
            /\ mf.trackTotal =>
                  /\ Len(mfOut) = n + 1
                  /\ mfOut[n + 1].val = Float(mfIn.total)

\* a percentage family that tracks totals was given value 50 of total 200
C12_Witness ==
    /\ mfDone
    /\ mfIn.mf.valueType = "percentage" /\ mfIn.mf.trackTotal
    /\ mfIn.total = 200
    /\ mfIn.data = <<newMetricData(Float(50))>>
    /\ mfOut[1].val = Float(25)
    /\ mfOut[2].val = Float(200)

(***************************************************************************)
(* C13.  The label pairs of every metric NewMetric builds, for a           *)
(* MetricFamily or for an automatic descriptor, are sorted by name in      *)
(* non-decreasing order, whether makeLabelPairs returns no labels, the     *)
(* constant labels themselves or the merged labels; when the names are     *)
(* pairwise distinct the pairs are the sorted arrangement of the set of    *)
(* pairs supplied, whatever the order in which constant, static and        *)
(* per-sample labels arrived.                                              *)
(***************************************************************************)
\* the set of pairs supplied to the construction
SuppliedPairs(in) ==
    {in.constLabels[i] : i \in 1..Len(in.constLabels)}
    \cup {in.staticLabels[i] : i \in 1..Len(in.staticLabels)}
    \cup {[name |-> in.labelValues[i].key, value |-> in.labelValues[i].value] :
             i \in 1..Len(in.labelValues)}

SuppliedCount(in) == Len(in.constLabels) + Len(in.staticLabels) + Len(in.labelValues)

DistinctNames(in) ==
    Cardinality({pr.name : pr \in SuppliedPairs(in)}) = SuppliedCount(in)

\* the one arrangement of the pairs of S, of distinct names, in increasing order
Ascending(S) ==
    CHOOSE s \in [1..Cardinality(S) -> S] :
        \A i, j \in 1..Cardinality(S) : i < j => StrLess(s[i].name, s[j].name)

KeyText(key) == IF key.t = "str" THEN key.s ELSE "200"

C14_TermsHandle ==
    aggpc = "handled" /\ aggIn.aggType = "terms" =>
        LET buckets == aggIn.result.buckets.a
            n == Len(buckets)
            k == Len(aggIn.acc)
        IN  /\ Len(aggOut) = k + n
            /\ SubSeq(aggOut, 1, k) = aggIn.acc
            /\ \A i \in 1..n :
                  /\ aggOut[k + i].label =
                        <<[key |-> aggIn.name, value |-> KeyText(buckets[i].key)]>>
                  /\ buckets[i].doc_count.t = "num" =>
                        aggOut[k + i].value = Float(buckets[i].doc_count.n)

\* two buckets of different keys and counts were appended to an accumulator
\* that held data already
C14_Witness ==
    /\ aggpc = "handled"
    /\ aggIn.aggType = "terms" /\ aggIn.name = "http_code"
    /\ Len(aggIn.acc) = 2
    /\ aggIn.result.buckets.a = <<[key |-> Str("200"), doc_count |-> Num(80)],
                                  [key |-> Str("500"), doc_count |-> Num(20)]>>
    /\ SubSeq(aggOut, 3, 4) = <<newLabeledMetricData(Float(80), "http_code", "200"),
                                newLabeledMetricData(Float(20), "http_code", "500")>>

(***************************************************************************)
(* C15.  StatsAggregationHandler.Handle returns the accumulator followed   *)
(* by exactly five data labeled ("stat", count), ("stat", min),            *)
(* ("stat", max), ("stat", avg) and ("stat", sum), in that order, each of  *)
(* the value of the field of the same name.                                *)
(***************************************************************************)
StatNames == <<"count", "min", "max", "avg", "sum">>

StatField(result, name) ==
    CASE name = "count" -> result.count [] name = "min" -> result.min
      [] name = "max" -> result.max [] name = "avg" -> result.avg
      [] name = "sum" -> result.sum

C15_StatsHandle ==
    aggpc = "handled" /\ aggIn.aggType = "stats" =>
        LET k == Len(aggIn.acc)
        IN  /\ Len(aggOut) = k + 5
            /\ SubSeq(aggOut, 1, k) = aggIn.acc
            /\ \A i \in 1..5 :
                  /\ aggOut[k + i].label = <<[key |-> "stat", value |-> StatNames[i]]>>
                  /\ StatField(aggIn.result, StatNames[i]).t = "num" =>
                        aggOut[k + i].value =
                            Float(StatField(aggIn.result, StatNames[i]).n)

\* a result whose avg and sum differ was handled
C15_Witness ==
    /\ aggpc = "handled"
    /\ aggIn.aggType = "stats"
    /\ aggIn.result.avg = Num(1) /\ aggIn.result.sum = Num(2)
    /\ aggIn.result.count = Num(2)
    /\ Len(aggOut) = Len(aggIn.acc) + 5
    /\ aggOut[Len(aggOut)].value = Float(2)

(***************************************************************************)
(* C16.  For each of the kinds min, max, sum, avg and cardinality,         *)
(* NewForType returns a SingleValueAggregationHandler and no error, and    *)
(* that handler appends to the accumulator exactly one unlabeled datum of  *)
(* the value of the result's field value.  (The code returns a nil handler *)
(* for min, max, sum and avg.)                                             *)
(***************************************************************************)
SingleValueTypes == {"min", "max", "sum", "avg", "cardinality"}

C16_SingleValue ==
    aggIn.aggType \in SingleValueTypes =>
        /\ aggpc # "new" =>
              /\ aggNew.handler = SingleValueAggregationHandler
              /\ aggNew.err = NoError
        /\ aggpc # "panicked"
        /\ aggpc = "handled" =>
              /\ Len(aggOut) = Len(aggIn.acc) + 1
              /\ SubSeq(aggOut, 1, Len(aggIn.acc)) = aggIn.acc
              /\ aggOut[Len(aggOut)].label = <<>>
              /\ aggIn.result.value.t = "num" =>
                    aggOut[Len(aggOut)].value = Float(aggIn.result.value.n)

(***************************************************************************)
(* C17.  NewForType returns an error and no handler for every kind other   *)
(* than terms, stats, min, max, sum, avg and cardinality, and no error for *)
(* each of these; the failure is at construction, so no Handle runs for an *)
(* unsupported kind.                                                       *)
(***************************************************************************)
SupportedTypes == {"terms", "stats", "min", "max", "sum", "avg", "cardinality"}

C17_UnsupportedKind ==
    aggpc \notin {"idle", "new"} =>
        /\ aggIn.aggType \notin SupportedTypes =>
              /\ aggNew.err # NoError
              /\ aggNew.handler = NilHandler
              /\ aggpc # "handled"
              /\ aggOut = <<>>
        /\ aggIn.aggType \in SupportedTypes => aggNew.err = NoError

\* NewForType was asked for a histogram handler
C17_Witness ==
    /\ aggpc = "built"
    /\ aggIn.aggType = "histogram"
    /\ aggNew.err = NotImplemented("histogram")

(***************************************************************************)
(* C18.  Every cachingCollector.Collect call that receives from cacheSem   *)
(* sends to it exactly once before it returns, on the refresh path and on  *)
(* the serve path alike, and nothing else sends to it; under a fair        *)
(* scheduler every caller waiting for the slot comes to hold it or returns *)
(* on cancellation, every holder returns, and once every call has returned *)
(* cacheSem holds its one time again.                                      *)
(***************************************************************************)
Returned(p) == ccpc[p] \in {"done", "cancelled"}

\* a call is between its receive from cacheSem and its return exactly while
\* the time it received is out of the channel
C18_TokenOut ==
    /\ \A p \in Callers : Holding(p) => cacheSem = <<>>
    /\ (\A p \in Callers : ccpc[p] \notin {"refresh", "serve", "release"}) =>
          Len(cacheSem) = 1
    /\ (\A p \in Callers : Returned(p)) => Len(cacheSem) = 1

\* a send to cacheSem is the last step of a call that holds the slot, and the
\* return of such a call is a send
C18_OneSend ==
    /\ Len(cacheSem') > Len(cacheSem) =>
          /\ Len(cacheSem') = Len(cacheSem) + 1
          /\ Cardinality({p \in Callers : ccpc[p] = "release" /\ ccpc'[p] = "done"}) = 1
    /\ \A p \in Callers :
          ccpc[p] # "done" /\ ccpc'[p] = "done" =>
              /\ ccpc[p] = "release"
              /\ Len(cacheSem') = Len(cacheSem) + 1
              /\ ccraw[p] \in {0, 1}
    /\ \A p \in Callers :
          ccpc[p] = "select" /\ ccpc'[p] # "select" =>
              \/ ccpc'[p] \in {"refresh", "serve"} /\ cacheSem # <<>> /\ cacheSem' = <<>>
              \/ ccpc'[p] = "cancelled" /\ ctxDone[p]

\* no call is waiting for the slot or holding it, and cacheSem holds a time
C18_Quiet ==
    /\ \A p \in Callers : ccpc[p] \in {"idle", "done", "cancelled"}
    /\ Len(cacheSem) = 1

\* the calls that have come all leave the wait by one of its two ways and
\* return; a call that has yet to come finds the slot free
C18_SlotReturned ==
    /\ [](C18_TokenOut)
    /\ [][C18_OneSend]_vars
    /\ <>[](C18_Quiet)

\* all calls have returned: one refreshed, one served the cache and one gave
\* up its wait for the slot; cacheSem holds a time
C18_Witness ==
    \E p, o, w \in Callers :
        /\ ccpc[p] = "done" /\ ccraw[p] = 1
        /\ ccpc[o] = "done" /\ ccraw[o] = 0
        /\ ccpc[w] = "cancelled" /\ collTime[w] >= StartTime
        /\ Len(cacheSem) = 1

(***************************************************************************)
(* C19.  A cachingCollector.Collect call that holds the slot refreshes if  *)
(* and only if its arrival time less the time in cacheSem is greater than  *)
(* MinInterval, and serves the cache otherwise; the first call to hold the *)
(* slot refreshes.  A refresh forwards exactly what the wrapped collector  *)
(* produced, in order, leaves exactly that in the cache, nothing of the    *)
(* earlier content, and puts its arrival time into cacheSem.  A serve      *)
(* forwards the cache, does not invoke the wrapped collector and leaves    *)
(* the cache and the time in cacheSem as they were.                        *)
(***************************************************************************)
\* what Query q of the wrapped collector sent in the run that has just ended
ProducedBy(q) ==
    IF qentry[q] = "cancelled"
    THEN QueryEnter(q, TRUE).pending
    ELSE QueryShape(q, run(q, Search(q, qoutcome[q]))).pending

\* the wrapped collector of the model has one query
Produced == ProducedBy(CHOOSE q \in QueriesOf(RawColl) : TRUE)

\* the step in which p receives from cacheSem
C19_Decide(p) ==
    ccpc[p] = "select" /\ ccpc'[p] \in {"refresh", "serve"} =>
        LET age == collTime[p] - Head(cacheSem)
        IN  /\ cacheTime'[p] = Head(cacheSem)
            /\ age > MinInterval =>
                  /\ ccpc'[p] = "refresh"
                  /\ cache' = <<>>
                  /\ cstarts'[RawColl] = cstarts[RawColl] + 1
            /\ age <= MinInterval =>
                  /\ ccpc'[p] = "serve"
                  /\ cache' = cache
                  /\ cstarts' = cstarts
            /\ (\A o \in Callers : ccpc[o] # "done") => ccpc'[p] = "refresh"

\* the steps of p on the refresh path
C19_Refresh(p) ==
    /\ ccpc[p] = "refresh" /\ ccpc'[p] = "release" =>
          /\ ccout[p] = Produced
          /\ cache = Produced /\ cache' = cache
          /\ cacheTime'[p] = collTime[p]
    /\ ccpc[p] = "release" /\ ccraw[p] = 1 /\ ccpc'[p] = "done" =>
          /\ cacheSem' = <<collTime[p]>>
          /\ cache' = cache /\ cache = ccout[p]

\* the steps of p on the serve path
C19_Serve(p) ==
    /\ ccpc[p] = "serve" /\ ccpc'[p] = "release" => ccout'[p] = cache
    /\ ccpc[p] \in {"serve", "release"} /\ ccraw[p] = 0 =>
          /\ cache' = cache
          /\ cstarts' = cstarts
          /\ cacheTime'[p] = cacheTime[p]
          /\ cpc'[RawColl] = "idle"
    /\ ccpc[p] = "release" /\ ccraw[p] = 0 /\ ccpc'[p] = "done" =>
          cacheSem' = <<cacheTime[p]>>

C19_Step == \A p \in Callers : C19_Decide(p) /\ C19_Refresh(p) /\ C19_Serve(p)

C19_RefreshOrServe == [][C19_Step]_vars

\* a call refreshed a cache that had been filled by an earlier refresh and
\* served in between
C19_Witness ==
    \E p, o, w \in Callers :
        /\ ccpc[p] = "done" /\ ccraw[p] = 1
        /\ ccpc[w] = "done" /\ ccraw[w] = 0 /\ ccout[w] = ccout[p]
        /\ ccpc[o] = "done" /\ ccraw[o] = 1
        /\ collTime[o] - collTime[p] > MinInterval
        /\ Len(ccout[p]) >= 1
        /\ ccout[o] # ccout[p]
        /\ cache = ccout[o]
        /\ cacheSem = <<collTime[o]>>

C21_Entry ==
    tpc = "start" /\ ctxDone[Scrape] =>
        /\ tprobes' = tprobes
        /\ tup' = FALSE
        /\ out' = <<NewInvalidMetric(Wrap("target", CtxErr))>>

\* a scrape that was invoked with its context done is past its entry without
\* a probe
C21_NoBackendWork ==
    tpc # "start" /\ tprobes = 0 =>
        /\ ctxDone[Scrape] /\ ~tup
        /\ \A q \in TargetQueries : qsearch[q] = 0 /\ qpc[q] = "idle"
        /\ \A c \in TargetColls : cstarts[c] = 0 /\ cpc[c] = "idle"
        /\ Len(SelectSeq(out, IsInvalid)) = 1
        /\ tname # "" /\ tpc \in {"fanout", "wait", "done"} =>
              out[2] = NewMetric(UpDesc, Float(0), <<>>)
        /\ tname # "" /\ tpc = "done" =>
              /\ Len(out) = 3
              /\ IsDuration(out[3])

WithoutUnknown(q, body) ==
    [body EXCEPT !.aggs = SelectSeq(body.aggs,
                              LAMBDA a : a.name = RequestedAggregation(q))]

C22_UnknownSkipped ==
    qrDone =>
        /\ \A i \in 1..Len(qrOut.pending) : ~IsInvalid(qrOut.pending[i])
        /\ qrOut.mfcalls = Len(MetricFamiliesOf(qrIn.q))
        /\ qrOut.pending =
              QueryShape(qrIn.q, [resp |-> WithoutUnknown(qrIn.q, qrIn.body),
                                  err |-> NoError]).pending

(***************************************************************************)
(* C23.  In single-target mode (the target's name is empty) Target.Collect *)
(* sends neither the up metric nor the scrape duration metric, whether the *)
(* target is up or down.  In multi-target mode it sends each exactly once  *)
(* per scrape: the up metric once the probe is over, the scrape duration   *)
(* metric when the scrape ends.                                            *)
(***************************************************************************)
\* how many up metrics and scrape duration metrics the scrape has sent
UpsSent == Cardinality({i \in 1..Len(out) : IsUp(out[i])})

DurationsSent == Cardinality({i \in 1..Len(out) : IsDuration(out[i])})

HasInvalid(ms) == \E i \in 1..Len(ms) : IsInvalid(ms[i])

\* p has returned from a refresh in which an invalid metric was sent
RefreshedInvalid(p) == ccpc[p] = "done" /\ ccraw[p] = 1 /\ HasInvalid(ccout[p])

\* o has returned, its context not done, having received from cacheSem the
\* time the refresh of p put there
ReturnedAfter(o, p) == ccpc[o] = "done" /\ ~ctxDone[o] /\ o # p /\ cacheTime[o] = collTime[p]

C24_InvalidCached ==
    \A p \in Callers :
        RefreshedInvalid(p) =>
            /\ cacheTime[p] = collTime[p]
            /\ cacheSem = <<collTime[p]>> => cache = ccout[p]
            /\ \A o \in Callers :
                  ReturnedAfter(o, p) /\ collTime[o] - collTime[p] <= MinInterval =>
                      /\ ccraw[o] = 0
                      /\ ccout[o] = ccout[p]

\* a call with a live context arrived MinInterval after a failed refresh and
\* sent the invalid metric of that refresh
C24_Witness ==
    \E p, o \in Callers :
        /\ RefreshedInvalid(p)
        /\ ReturnedAfter(o, p)
        /\ collTime[o] = collTime[p] + MinInterval
        /\ ccraw[o] = 0
        /\ HasInvalid(ccout[o])

(***************************************************************************)
(* C25.  NewMetricFamily leaves the constLabels it is handed as they were: *)
(* after any number of families built from the same constLabels, these     *)
(* have the length, the elements and the order they had before.  The       *)
(* constant labels of every family are the shared ones and its own static  *)
(* labels, sorted, and stay so while other families are built; those of    *)
(* the up and scrape_duration descriptors are the shared ones alone: no    *)
(* family's static labels are among them.                                  *)
(***************************************************************************)
C25_ConstLabelsKept ==
    /\ Deref(shHeap, shConst) = shOrig
    /\ \A i \in 1..Len(shFams) :
          Deref(shHeap, shFams[i].constLabels)
              = SortPairs(shOrig \o shFams[i].staticLabels)
    /\ \A i \in 1..Len(shAuto) : Deref(shHeap, shAuto[i].constLabels) = shOrig

\* two families with different static labels and both automatic descriptors
\* have been built from constant labels whose array had room for more
C25_Witness ==
    /\ Len(shFams) = 2
    /\ shFams[1].staticLabels # <<>> /\ shFams[2].staticLabels # <<>>
    /\ shFams[1].staticLabels # shFams[2].staticLabels
    /\ Len(shAuto) = 2
    /\ shConst.len > 0 /\ shConst.cap > shConst.len

====
